---- MODULE Spec2Model ----
(***************************************************************************)
(* Model of the two-tier vault ledger of curator-agent:                    *)
(*   back_test/entities/precision.py        ceil_to_6dp / floor_to_6dp     *)
(*   back_test/entities/logarithm_vault.py  LogarithmVault (sub-vault)     *)
(*   back_test/entities/meta_vault.py       MetaVault (aggregator)         *)
(*   curator/utils/validate_actions.py      the four batch validators      *)
(*   back_test/baseline_strategy.py         BaselineStrategy.predict       *)
(*                                                                         *)
(* Numbers.  The code computes in Python floats.  Here every asset and     *)
(* share quantity is an exact integer count of grid steps, where Grid      *)
(* steps make up 1e-6 (one unit of the sixth decimal place), so that       *)
(* amounts that are not multiples of 1e-6 exist in the model.  A share     *)
(* price, a cost rate and the aggregator's total supply are exact          *)
(* fractions [n, d].  The rounding functions are computed exactly on these *)
(* values; the binary rounding error of IEEE doubles is not modelled.      *)
(*                                                                         *)
(* A call that raises is a step as well: it records the exception in `op`  *)
(* and keeps whatever the handler had already written before the raise.    *)
(***************************************************************************)
EXTENDS Integers, Sequences, FiniteSets, TLC

VARIABLES vault, meta, op, hist

vars == <<vault, meta, op, hist>>

(***************************************************************************)
(* Bounds of the model.                                                    *)
(***************************************************************************)
\* grid steps per 1e-6
Grid == 2
\* largest amount (grid steps) a caller passes to a vault action
MaxAmount == 4
\* caps on a vault's internal state (grid steps)
MaxShares == 8
MaxOpen == 8
\* share prices n/d with n <= MaxPriceNum, d <= MaxPriceDen
MaxPriceNum == 2
MaxPriceDen == 2
\* largest idle_assets / pending_withdrawals figure pushed by update_state
MaxLiquidity == 2
\* largest argument of a preview call (grid steps)
MaxPreview == 410
\* cap on the assets paid into a vault whose payments are totalled
MaxPaidIn == 8
\* longest batch of (target, amount) pairs
MaxBatch == 2
\* largest amount (grid steps) in a batch or in an aggregator deposit/withdrawal
MaxBatchAmount == 4
\* longest sequence of calls on the aggregator and its sub-vaults
MaxSteps == 5
\* SpecExample: the deposits range over 100000 - MaxExample .. 100000 + MaxExample
MaxExample == 60
\* SpecFloat: significant bits of a float, largest amount, longest batch, longest
\* sequence of allocations
MantissaBits == 3
MaxFloat == 16
MaxFloatBatch == 3
MaxFloatSteps == 1
\* SpecFloatVault: significant bits of a float, binary digits after the point,
\* the power of ten of the 6-decimal rounding (the code: 53 bits, 1e6), largest
\* deposit (in 1/Decimals), longest sequence of calls
VaultMantissaBits == 5
FracBits == 9
Decimals == 10
MaxFloatDeposit == 40
MaxFloatVaultSteps == 2
\* SpecValidate: largest amount, total and balance of a proposed batch; steps per
\* weight 1
MaxValidated == 3
WeightSteps == 2
\* SpecStrategy: largest INIT_BALANCE (grid steps), largest WINDOW_SIZE, number of
\* observations pushed
MaxInitBalance == 8
MaxWindow == 1
MaxObservations == 2

Vaults == {"v1", "v2"}

NoExc == "none"
LogarithmVaultEntityException == "LogarithmVaultEntityException"
MetaVaultEntityException == "MetaVaultEntityException"
ZeroDivisionError == "ZeroDivisionError"

(***************************************************************************)
(* Exact arithmetic helpers.                                               *)
(***************************************************************************)
Abs(x) == IF x < 0 THEN -x ELSE x

RECURSIVE GCD(_, _)
GCD(a, b) == IF b = 0 THEN a ELSE GCD(b, a % b)

\* math.floor(n/d) and math.ceil(n/d) for d > 0
FloorDiv(n, d) == n \div d
CeilDiv(n, d) == -((-n) \div d)

Frac(n, d) == [n |-> n, d |-> d]

(***************************************************************************)
(* precision.py.  The argument is the exact value n/d in grid steps; the   *)
(* result is a multiple of 1e-6, in grid steps.                            *)
(***************************************************************************)
ceil_to_6dp(n, d) == CeilDiv(n, d * Grid) * Grid

\* mutant: rounds up where the code rounds down
floor_to_6dp_rounding_up(n, d) == CeilDiv(n, d * Grid) * Grid

floor_to_6dp(n, d) == FloorDiv(n, d * Grid) * Grid

(***************************************************************************)
(* LogarithmVault.  A vault is a record: the constructor's two cost rates, *)
(* the global state (share_price, idle_assets, pending_withdrawals) and    *)
(* the internal state (shares, open_assets).                               *)
(***************************************************************************)
DefaultRate == Frac(35, 10000)

\* rates the constructor accepts: 0 <= rate <= 0.01
CostRates == {Frac(0, 1), DefaultRate, Frac(1, 100)}

LogarithmVaultGlobalState(price, idle, pending) ==
    [share_price |-> price, idle_assets |-> idle, pending_withdrawals |-> pending]

NewLogarithmVault(entry, exit) ==
    [entry_cost_rate |-> entry, exit_cost_rate |-> exit,
     share_price |-> Frac(1, 1), idle_assets |-> 0, pending_withdrawals |-> 0,
     shares |-> 0, open_assets |-> 0]

_cost_on_raw(assets, cost_rate) == ceil_to_6dp(assets * cost_rate.n, cost_rate.d)

_cost_on_total(assets, cost_rate) ==
    ceil_to_6dp(assets * cost_rate.n, cost_rate.d + cost_rate.n)

\* mutant: the shares minted are rounded up
preview_deposit_rounding_up(v, assets) ==
    LET assets_to_utilize ==
            IF assets > v.pending_withdrawals THEN assets - v.pending_withdrawals ELSE 0
        entry_cost == _cost_on_total(assets_to_utilize, v.entry_cost_rate)
    IN  ceil_to_6dp((assets - entry_cost) * v.share_price.d, v.share_price.n)

preview_deposit(v, assets) ==
    LET assets_to_utilize ==
            IF assets > v.pending_withdrawals THEN assets - v.pending_withdrawals ELSE 0
        entry_cost == _cost_on_total(assets_to_utilize, v.entry_cost_rate)
        assets_after_entry_cost == assets - entry_cost
    IN  floor_to_6dp(assets_after_entry_cost * v.share_price.d, v.share_price.n)

preview_redeem(v, shares) ==
    LET assets == floor_to_6dp(shares * v.share_price.n, v.share_price.d)
        assets_to_deutilize ==
            IF assets > v.idle_assets THEN assets - v.idle_assets ELSE 0
        exit_cost == _cost_on_total(assets_to_deutilize, v.exit_cost_rate)
        assets_after_exit_cost == assets - exit_cost
    IN  floor_to_6dp(assets_after_exit_cost, 1)

\* mutant: the shares burned are rounded down
preview_withdraw_rounding_down(v, assets) ==
    LET assets_from_deutilize ==
            IF assets > v.idle_assets THEN assets - v.idle_assets ELSE 0
        exit_cost == _cost_on_raw(assets_from_deutilize, v.exit_cost_rate)
    IN  floor_to_6dp((assets + exit_cost) * v.share_price.d, v.share_price.n)

\* mutant: the exit cost is charged as a part of the amount, not on top of it
preview_withdraw_cost_on_total(v, assets) ==
    LET assets_from_deutilize ==
            IF assets > v.idle_assets THEN assets - v.idle_assets ELSE 0
        exit_cost == _cost_on_total(assets_from_deutilize, v.exit_cost_rate)
    IN  ceil_to_6dp((assets + exit_cost) * v.share_price.d, v.share_price.n)

preview_withdraw(v, assets) ==
    LET assets_from_deutilize ==
            IF assets > v.idle_assets THEN assets - v.idle_assets ELSE 0
        exit_cost == _cost_on_raw(assets_from_deutilize, v.exit_cost_rate)
        assets_after_exit_cost == assets + exit_cost
    IN  ceil_to_6dp(assets_after_exit_cost * v.share_price.d, v.share_price.n)

balance(v) == preview_redeem(v, v.shares)

\* mutant: open_assets is not reset when the shares reach 0
_update_internal_state_no_reset(v, delta_shares, delta_assets) ==
    [v EXCEPT !.shares = v.shares + delta_shares,
              !.open_assets = v.open_assets + delta_assets]

_update_internal_state(v, delta_shares, delta_assets) ==
    LET shares == v.shares + delta_shares
    IN  [v EXCEPT !.shares = shares,
                  !.open_assets = IF shares = 0 THEN 0 ELSE v.open_assets + delta_assets]

\* The outcome of a call: the vault afterwards, the value returned, the exception.
Outcome(v, ret, exc) == [vault |-> v, ret |-> ret, exc |-> exc]

Raise(v) == Outcome(v, 0, LogarithmVaultEntityException)

\* mutant: the deposit serves the vault's pending withdrawals
action_deposit_serving_pending(v, assets) ==
    IF assets < 0 THEN Raise(v)
    ELSE LET shares_to_mint == preview_deposit(v, assets)
             served == IF assets > v.pending_withdrawals THEN v.pending_withdrawals
                       ELSE assets
             w == [v EXCEPT !.pending_withdrawals = @ - served]
         IN  Outcome(_update_internal_state(w, shares_to_mint, assets),
                     shares_to_mint, NoExc)

action_deposit(v, assets) ==
    IF assets < 0 THEN Raise(v)
    ELSE LET shares_to_mint == preview_deposit(v, assets)
         IN  Outcome(_update_internal_state(v, shares_to_mint, assets),
                     shares_to_mint, NoExc)

\* mutant: no check of the shares held
action_redeem_unchecked(v, shares) ==
    IF shares < 0 THEN Raise(v)
    ELSE LET assets_to_withdraw == preview_redeem(v, shares)
         IN  Outcome(_update_internal_state(v, -shares, -assets_to_withdraw),
                     assets_to_withdraw, NoExc)

action_redeem(v, shares) ==
    IF shares < 0 THEN Raise(v)
    ELSE IF shares > v.shares THEN Raise(v)
    ELSE LET assets_to_withdraw == preview_redeem(v, shares)
         IN  Outcome(_update_internal_state(v, -shares, -assets_to_withdraw),
                     assets_to_withdraw, NoExc)

action_withdraw(v, assets) ==
    IF assets < 0 THEN Raise(v)
    ELSE LET allocated_assets == balance(v)
         IN  IF assets = allocated_assets
             THEN Outcome(_update_internal_state(v, -v.shares, -allocated_assets),
                          v.shares, NoExc)
             ELSE IF assets > allocated_assets THEN Raise(v)
             ELSE LET shares_to_burn == preview_withdraw(v, assets)
                  IN  IF shares_to_burn > v.shares THEN Raise(v)
                      ELSE Outcome(_update_internal_state(v, -shares_to_burn, -assets),
                                   shares_to_burn, NoExc)

\* mutant: idle_assets and pending_withdrawals may both be positive
update_state_both_positive(v, state) ==
    IF state.share_price.n <= 0 THEN Raise(v)
    ELSE IF state.idle_assets < 0 \/ state.pending_withdrawals < 0 THEN Raise(v)
    ELSE Outcome([v EXCEPT !.share_price = state.share_price,
                           !.idle_assets = state.idle_assets,
                           !.pending_withdrawals = state.pending_withdrawals],
                 0, NoExc)

\* mutant: an accepted update stores the share price only
update_state_price_only(v, state) ==
    IF state.share_price.n <= 0 THEN Raise(v)
    ELSE IF state.idle_assets < 0 \/ state.pending_withdrawals < 0 THEN Raise(v)
    ELSE IF state.idle_assets > 0 /\ state.pending_withdrawals > 0 THEN Raise(v)
    ELSE Outcome([v EXCEPT !.share_price = state.share_price], 0, NoExc)

update_state(v, state) ==
    IF state.share_price.n <= 0 THEN Raise(v)
    ELSE IF state.idle_assets < 0 \/ state.pending_withdrawals < 0 THEN Raise(v)
    ELSE IF state.idle_assets > 0 /\ state.pending_withdrawals > 0 THEN Raise(v)
    ELSE Outcome([v EXCEPT !.share_price = state.share_price,
                           !.idle_assets = state.idle_assets,
                           !.pending_withdrawals = state.pending_withdrawals],
                 0, NoExc)

(***************************************************************************)
(* MetaVault.  The aggregator is a record: _assets, the cumulative         *)
(* requested withdrawals, the list of allocated vaults (entity names), the *)
(* internal state's total_supply (an exact fraction) and the global state  *)
(* (deposits, withdrawals).  Its operations read and write the sub-vaults, *)
(* so they take the aggregator m and the sub-vaults vs (name -> vault).    *)
(***************************************************************************)
\* DUST = 0.000001
DUST == Grid

NewMetaVault ==
    [_assets |-> 0, _allocated_vaults |-> <<>>, _cumulative_requested_withdrawals |-> 0,
     total_supply |-> Frac(0, 1), deposits |-> 0, withdrawals |-> 0]

\* the fraction n/d in lowest terms with a positive denominator (d # 0)
FracNorm(n, d) ==
    LET g == GCD(Abs(n), Abs(d))
        s == IF d < 0 THEN -1 ELSE 1
    IN  Frac((s * n) \div g, (s * d) \div g)

FracAdd(x, y) == FracNorm(x.n * y.d + y.n * x.d, x.d * y.d)

FracSub(x, y) == FracNorm(x.n * y.d - y.n * x.d, x.d * y.d)

RECURSIVE SeqSum(_)
SeqSum(s) == IF s = <<>> THEN 0 ELSE Head(s) + SeqSum(Tail(s))

MetaVault_idle_assets(m) ==
    LET idle == m._assets - m._cumulative_requested_withdrawals
    IN  IF idle > 0 THEN idle ELSE 0

\* mutant: every withdrawal ever requested stays pending
pending_withdrawals_never_served(m) == m._cumulative_requested_withdrawals

MetaVault_pending_withdrawals(m) ==
    LET requested == m._cumulative_requested_withdrawals - m._assets
    IN  IF requested > 0 THEN requested ELSE 0

MetaVault_balance(m) == MetaVault_idle_assets(m) - MetaVault_pending_withdrawals(m)

MetaVault_allocated_assets(m, vs) ==
    SeqSum([i \in 1..Len(m._allocated_vaults) |-> balance(vs[m._allocated_vaults[i]])])

MetaVault_total_assets(m, vs) ==
    MetaVault_idle_assets(m) + MetaVault_allocated_assets(m, vs)
        - MetaVault_pending_withdrawals(m)

MetaVault_total_supply(m) == m.total_supply

\* The outcome of an aggregator call: aggregator and sub-vaults afterwards, the
\* value returned, the exception.
MetaOutcome(m, vs, ret, exc) == [meta |-> m, vault |-> vs, ret |-> ret, exc |-> exc]

MetaRaise(m, vs) == MetaOutcome(m, vs, 0, MetaVaultEntityException)

\* mutant: one share per asset whatever the aggregator is worth
action_deposit_at_par(m, vs, assets) ==
    IF assets < 0 THEN MetaRaise(m, vs)
    ELSE MetaOutcome([m EXCEPT !._assets = @ + assets,
                               !.total_supply = FracAdd(@, Frac(assets, 1))],
                     vs, Frac(assets, 1), NoExc)

MetaVault_action_deposit(m, vs, assets) ==
    IF assets < 0 THEN MetaRaise(m, vs)
    ELSE LET total_assets == MetaVault_total_assets(m, vs)
             shares_to_mint ==
                 IF total_assets = 0 THEN Frac(assets, 1)
                 ELSE FracNorm(assets * m.total_supply.n, m.total_supply.d * total_assets)
         IN  MetaOutcome([m EXCEPT !._assets = @ + assets,
                                   !.total_supply = FracAdd(@, shares_to_mint)],
                         vs, shares_to_mint, NoExc)

\* mutant: the whole amount is taken from _assets, no shortfall is recorded
action_withdraw_from_raw_assets(m, vs, assets) ==
    LET total_assets == MetaVault_total_assets(m, vs)
    IN  IF assets < 0 THEN MetaRaise(m, vs)
        ELSE IF assets > total_assets THEN MetaRaise(m, vs)
        ELSE IF total_assets = 0 THEN MetaOutcome(m, vs, 0, ZeroDivisionError)
        ELSE LET shares_to_burn ==
                     FracNorm(assets * m.total_supply.n, m.total_supply.d * total_assets)
             IN  MetaOutcome([m EXCEPT !._assets = @ - assets,
                                       !.total_supply = FracSub(@, shares_to_burn)],
                             vs, shares_to_burn, NoExc)

MetaVault_action_withdraw(m, vs, assets) ==
    LET total_assets == MetaVault_total_assets(m, vs)
    IN  IF assets < 0 THEN MetaRaise(m, vs)
        ELSE IF assets > total_assets THEN MetaRaise(m, vs)
        \* assets * total_supply / 0 is a float division by zero
        ELSE IF total_assets = 0 THEN MetaOutcome(m, vs, 0, ZeroDivisionError)
        ELSE LET shares_to_burn ==
                     FracNorm(assets * m.total_supply.n, m.total_supply.d * total_assets)
                 idle == MetaVault_idle_assets(m)
                 drawn ==
                     IF idle >= assets
                     THEN [m EXCEPT !._assets = @ - assets]
                     ELSE [m EXCEPT !._assets = @ - idle,
                                    !._cumulative_requested_withdrawals = @ + (assets - idle)]
             IN  MetaOutcome([drawn EXCEPT !.total_supply = FracSub(@, shares_to_burn)],
                             vs, shares_to_burn, NoExc)

\* mutant: only the first vault of the list is compared with the target
IsAllocated_first_only(m, name) ==
    m._allocated_vaults # <<>> /\ m._allocated_vaults[1] = name

\* any(allocated.entity_name == target.entity_name for allocated in _allocated_vaults)
IsAllocated(m, name) == \E i \in 1..Len(m._allocated_vaults) : m._allocated_vaults[i] = name

\* [v for v in self._allocated_vaults if v.entity_name != target.entity_name]
RemoveAllocated(m, name) ==
    [m EXCEPT !._allocated_vaults = SelectSeq(@, LAMBDA n : n # name)]

\* isinstance(target.entity, LogarithmVault)
IsLogarithmVault(target) == target \in Vaults

\* the apply loop of action_allocate_assets from pair i on
RECURSIVE AllocateLoop(_, _, _, _, _)
AllocateLoop(m, vs, targets, amounts, i) ==
    IF i > Len(targets) THEN MetaOutcome(m, vs, SeqSum(amounts), NoExc)
    ELSE LET target == targets[i]
             amount == amounts[i]
             r == action_deposit(vs[target], amount)
         IN  IF r.exc # NoExc THEN MetaOutcome(m, vs, 0, r.exc)
             ELSE LET vs1 == [vs EXCEPT ![target] = r.vault]
                      m1 == [m EXCEPT !._assets = @ - amount]
                      m2 == IF IsAllocated(m1, target) THEN m1
                            ELSE [m1 EXCEPT !._allocated_vaults = Append(@, target)]
                  IN  AllocateLoop(m2, vs1, targets, amounts, i + 1)

\* amounts as applied: the shortfall taken off amounts[0], then dust zeroed
AdjustedAmounts(m, amounts) ==
    LET shortfall == SeqSum(amounts) - MetaVault_idle_assets(m)
        adjusted == [amounts EXCEPT ![1] = @ - (IF shortfall > 0 THEN shortfall ELSE 0)]
    IN  [i \in 1..Len(amounts) |-> IF adjusted[i] > DUST THEN adjusted[i] ELSE 0]

\* the checks every batch operation starts with
BadBatchShape(targets, amounts) ==
    \/ targets = <<>> \/ amounts = <<>>
    \/ Len(targets) # Len(amounts)
    \/ \E i \in 1..Len(targets) : ~IsLogarithmVault(targets[i])

\* mutant: the adjusted sum is not checked against the idle assets
allocate_assets_beyond_idle(m, vs, targets, amounts) ==
    IF BadBatchShape(targets, amounts) THEN MetaRaise(m, vs)
    ELSE IF \E i \in 1..Len(amounts) : amounts[i] < 0 THEN MetaRaise(m, vs)
    ELSE AllocateLoop(m, vs, targets, AdjustedAmounts(m, amounts), 1)

\* mutant: negative amounts are not rejected
allocate_assets_negative_amounts(m, vs, targets, amounts) ==
    IF BadBatchShape(targets, amounts) THEN MetaRaise(m, vs)
    ELSE LET applied == AdjustedAmounts(m, amounts)
         IN  IF SeqSum(applied) > MetaVault_idle_assets(m) THEN MetaRaise(m, vs)
             ELSE AllocateLoop(m, vs, targets, applied, 1)

MetaVault_action_allocate_assets(m, vs, targets, amounts) ==
    IF BadBatchShape(targets, amounts) THEN MetaRaise(m, vs)
    ELSE IF \E i \in 1..Len(amounts) : amounts[i] < 0 THEN MetaRaise(m, vs)
    ELSE LET applied == AdjustedAmounts(m, amounts)
         IN  IF SeqSum(applied) > MetaVault_idle_assets(m) THEN MetaRaise(m, vs)
             ELSE AllocateLoop(m, vs, targets, applied, 1)

\* the apply loop of action_redeem_allocations from pair i on; credited is the
\* sum of the assets returned so far
RECURSIVE RedeemLoop(_, _, _, _, _, _)
RedeemLoop(m, vs, targets, amounts, i, credited) ==
    IF i > Len(targets) THEN MetaOutcome(m, vs, credited, NoExc)
    ELSE LET target == targets[i]
             r == action_redeem(vs[target], amounts[i])
         IN  IF r.exc # NoExc THEN MetaOutcome(m, vs, credited, r.exc)
             ELSE LET vs1 == [vs EXCEPT ![target] = r.vault]
                      m1 == [m EXCEPT !._assets = @ + r.ret]
                      m2 == IF r.vault.shares = 0 THEN RemoveAllocated(m1, target) ELSE m1
                  IN  RedeemLoop(m2, vs1, targets, amounts, i + 1, credited + r.ret)

\* mutant: the assets the targets return are not added to _assets
redeem_allocations_uncredited(m, vs, targets, amounts) ==
    IF BadBatchShape(targets, amounts) THEN MetaRaise(m, vs)
    ELSE IF \E i \in 1..Len(targets) :
                amounts[i] < 0 \/ amounts[i] > vs[targets[i]].shares
         THEN MetaRaise(m, vs)
    ELSE LET r == RedeemLoop(m, vs, targets, amounts, 1, 0)
         IN  [r EXCEPT !.meta._assets = m._assets]

MetaVault_action_redeem_allocations(m, vs, targets, amounts) ==
    IF BadBatchShape(targets, amounts) THEN MetaRaise(m, vs)
    ELSE IF \E i \in 1..Len(targets) :
                amounts[i] < 0 \/ amounts[i] > vs[targets[i]].shares
         THEN MetaRaise(m, vs)
    ELSE RedeemLoop(m, vs, targets, amounts, 1, 0)

\* the apply loop of action_withdraw_allocations from pair i on
RECURSIVE WithdrawLoop(_, _, _, _, _, _)
WithdrawLoop(m, vs, targets, amounts, i, credited) ==
    IF i > Len(targets) THEN MetaOutcome(m, vs, credited, NoExc)
    ELSE LET target == targets[i]
             amount == amounts[i]
             r == action_withdraw(vs[target], amount)
         IN  IF r.exc # NoExc THEN MetaOutcome(m, vs, credited, r.exc)
             ELSE LET vs1 == [vs EXCEPT ![target] = r.vault]
                      m1 == [m EXCEPT !._assets = @ + amount]
                      m2 == IF r.vault.shares = 0 THEN RemoveAllocated(m1, target) ELSE m1
                  IN  WithdrawLoop(m2, vs1, targets, amounts, i + 1, credited + amount)

MetaVault_action_withdraw_allocations(m, vs, targets, amounts) ==
    IF BadBatchShape(targets, amounts) THEN MetaRaise(m, vs)
    ELSE IF \E i \in 1..Len(targets) :
                amounts[i] < 0 \/ amounts[i] > balance(vs[targets[i]])
         THEN MetaRaise(m, vs)
    ELSE WithdrawLoop(m, vs, targets, amounts, 1, 0)

\* mutant: deposits and withdrawals may both be positive
MetaVault_update_state_both_positive(m, vs, state) ==
    IF state.deposits < 0 \/ state.withdrawals < 0 THEN MetaRaise(m, vs)
    ELSE MetaOutcome([m EXCEPT !.deposits = state.deposits,
                               !.withdrawals = state.withdrawals],
                     vs, 0, NoExc)

MetaVault_update_state(m, vs, state) ==
    IF state.deposits < 0 \/ state.withdrawals < 0 THEN MetaRaise(m, vs)
    ELSE IF state.deposits > 0 /\ state.withdrawals > 0 THEN MetaRaise(m, vs)
    ELSE MetaOutcome([m EXCEPT !.deposits = state.deposits,
                               !.withdrawals = state.withdrawals],
                     vs, 0, NoExc)

(***************************************************************************)
(* The callers' inputs.                                                    *)
(***************************************************************************)
\* amounts and share amounts passed to a vault action, negative ones included
Amounts == -1..MaxAmount

\* share prices pushed by the state feed: fractions in lowest terms, among them
\* the invalid ones (zero, negative)
SharePrices ==
    {Frac(q[1], q[2]) :
        q \in {r \in (1..MaxPriceNum) \X (1..MaxPriceDen) : GCD(r[1], r[2]) = 1}}

PushedPrices == SharePrices \cup {Frac(0, 1), Frac(-1, 1)}

Liquidity == {-1, 0, MaxLiquidity}

PushedStates ==
    {LogarithmVaultGlobalState(p, i, w) : p \in PushedPrices, i \in Liquidity, w \in Liquidity}

ValidState(state) ==
    /\ state.share_price.n > 0
    /\ state.idle_assets >= 0
    /\ state.pending_withdrawals >= 0
    /\ ~(state.idle_assets > 0 /\ state.pending_withdrawals > 0)

\* the constructor's (entry_cost_rate, exit_cost_rate) arguments
RatePairs ==
    {<<Frac(0, 1), Frac(0, 1)>>, <<DefaultRate, DefaultRate>>, <<Frac(1, 100), DefaultRate>>}

\* the vault the caller drives directly
Direct == "v1"

InCaps(v) ==
    /\ v.shares \in -MaxShares..MaxShares
    /\ v.open_assets \in -MaxOpen..MaxOpen

NoOp == [name |-> "init", arg |-> 0, ret |-> 0, exc |-> NoExc]

NoHist == [paid_in |-> 0, paid_out |-> 0, steps |-> 0]

\* a call on the directly driven vault: the outcome is applied and recorded
VaultCall(name, arg, outcome) ==
    \E r \in {outcome} :
        /\ InCaps(r.vault)
        /\ vault' = [vault EXCEPT ![Direct] = r.vault]
        /\ op' = [name |-> name, arg |-> arg, ret |-> r.ret, exc |-> r.exc]
        /\ UNCHANGED meta

(***************************************************************************)
(* SpecVault: one LogarithmVault driven directly through update_state and  *)
(* its three actions.                                                      *)
(***************************************************************************)
InitVault ==
    /\ \E rates \in RatePairs :
           vault = [v \in Vaults |-> NewLogarithmVault(rates[1], rates[2])]
    /\ meta = NewMetaVault
    /\ op = NoOp
    /\ hist = NoHist

VaultUpdateState ==
    \E state \in PushedStates :
        /\ VaultCall("update_state", 0, update_state(vault[Direct], state))
        /\ UNCHANGED hist

VaultDeposit ==
    \E assets \in Amounts :
        /\ VaultCall("action_deposit", assets, action_deposit(vault[Direct], assets))
        /\ UNCHANGED hist

VaultRedeem ==
    \E shares \in Amounts \cup {vault[Direct].shares} :
        /\ VaultCall("action_redeem", shares, action_redeem(vault[Direct], shares))
        /\ UNCHANGED hist

VaultWithdraw ==
    \E assets \in Amounts \cup {balance(vault[Direct])} :
        /\ VaultCall("action_withdraw", assets, action_withdraw(vault[Direct], assets))
        /\ UNCHANGED hist

NextVault == VaultUpdateState \/ VaultDeposit \/ VaultRedeem \/ VaultWithdraw

SpecVault == InitVault /\ [][NextVault]_vars

(***************************************************************************)
(* SpecFixed: one LogarithmVault whose global state is pushed once and     *)
(* then held fixed, with the assets paid in and paid out totalled in hist. *)
(***************************************************************************)
InitFixed ==
    /\ \E rates \in RatePairs, state \in {st \in PushedStates : ValidState(st)} :
           vault = [v \in Vaults |->
                       update_state(NewLogarithmVault(rates[1], rates[2]), state).vault]
    /\ meta = NewMetaVault
    /\ op = NoOp
    /\ hist = NoHist

FixedDeposit ==
    \E assets \in Amounts :
        LET r == action_deposit(vault[Direct], assets)
        IN  /\ VaultCall("action_deposit", assets, r)
            /\ hist.paid_in + assets <= MaxPaidIn
            /\ hist' = IF r.exc = NoExc
                       THEN [hist EXCEPT !.paid_in = @ + assets] ELSE hist

FixedRedeem ==
    \E shares \in Amounts \cup {vault[Direct].shares} :
        LET r == action_redeem(vault[Direct], shares)
        IN  /\ VaultCall("action_redeem", shares, r)
            /\ hist' = IF r.exc = NoExc
                       THEN [hist EXCEPT !.paid_out = @ + r.ret] ELSE hist

FixedWithdraw ==
    \E assets \in Amounts \cup {balance(vault[Direct])} :
        LET r == action_withdraw(vault[Direct], assets)
        IN  /\ VaultCall("action_withdraw", assets, r)
            /\ hist' = IF r.exc = NoExc
                       THEN [hist EXCEPT !.paid_out = @ + assets] ELSE hist

NextFixed == FixedDeposit \/ FixedRedeem \/ FixedWithdraw

SpecFixed == InitFixed /\ [][NextFixed]_vars

(***************************************************************************)
(* SpecPreview: the three preview functions applied, under every valid     *)
(* global state and every pair of rates, to arguments up to MaxPreview.    *)
(***************************************************************************)
PreviewArgs == 0..MaxPreview

\* the argument of the preview calls is drawn once, into op.arg
\* the rate pairs of the previews
PreviewRatePairs == RatePairs \cup {<<DefaultRate, Frac(1, 100)>>}

InitPreview ==
    /\ \E rates \in PreviewRatePairs, state \in {st \in PushedStates : ValidState(st)} :
           vault = [v \in Vaults |->
                       update_state(NewLogarithmVault(rates[1], rates[2]), state).vault]
    /\ meta = NewMetaVault
    /\ \E arg \in PreviewArgs : op = [NoOp EXCEPT !.arg = arg]
    /\ hist = NoHist

PreviewCall(name, ret) ==
    /\ op' = [name |-> name, arg |-> op.arg, ret |-> ret, exc |-> NoExc]
    /\ UNCHANGED <<vault, meta, hist>>

PreviewDeposit == PreviewCall("preview_deposit", preview_deposit(vault[Direct], op.arg))

PreviewRedeem == PreviewCall("preview_redeem", preview_redeem(vault[Direct], op.arg))

PreviewWithdraw == PreviewCall("preview_withdraw", preview_withdraw(vault[Direct], op.arg))

NextPreview == PreviewDeposit \/ PreviewRedeem \/ PreviewWithdraw

SpecPreview == InitPreview /\ [][NextPreview]_vars

(***************************************************************************)
(* SpecExample: one deposit of a whole number of assets around 100000 into *)
(* a vault with share_price 2.0 and the default rates.  Such amounts, in   *)
(* grid steps, do not fit TLC's 32-bit integers, so the deposit is         *)
(* computed on wide numbers: sequences of six base-1000 digits, the most   *)
(* significant first.  The wide operators are the operators above, digit   *)
(* by digit.                                                               *)
(***************************************************************************)
\* the wide number of n, 0 <= n < 10^9
WideOf(n) == <<0, 0, 0, n \div 1000000, (n \div 1000) % 1000, n % 1000>>

\* digits 1..i of x times k plus carry, 0 <= k < 10^6
RECURSIVE WideMulFrom(_, _, _, _)
WideMulFrom(x, k, i, carry) ==
    IF i = 0 THEN <<>>
    ELSE LET t == x[i] * k + carry
         IN  Append(WideMulFrom(x, k, i - 1, t \div 1000), t % 1000)

WideMul(x, k) == WideMulFrom(x, k, Len(x), 0)

WideAdd(x, k) == WideMulFrom(x, 1, Len(x), k)

\* digits i.. of x divided by d with rem carried in, 0 < d < 10^6
RECURSIVE WideDivFrom(_, _, _, _)
WideDivFrom(x, d, i, rem) ==
    IF i > Len(x) THEN [q |-> <<>>, r |-> rem]
    ELSE LET t == rem * 1000 + x[i]
             rest == WideDivFrom(x, d, i + 1, t % d)
         IN  [q |-> <<t \div d>> \o rest.q, r |-> rest.r]

WideFloorDiv(x, d) == WideDivFrom(x, d, 1, 0).q

WideCeilDiv(x, d) ==
    LET qr == WideDivFrom(x, d, 1, 0)
    IN  IF qr.r > 0 THEN WideAdd(qr.q, 1) ELSE qr.q

WideGt(x, y) ==
    \E i \in 1..Len(x) : x[i] > y[i] /\ \A j \in 1..(i - 1) : x[j] = y[j]

\* digits 1..i of x - y with borrow, for x >= y
RECURSIVE WideSubFrom(_, _, _, _)
WideSubFrom(x, y, i, borrow) ==
    IF i = 0 THEN <<>>
    ELSE LET t == x[i] - y[i] - borrow
         IN  IF t < 0 THEN Append(WideSubFrom(x, y, i - 1, 1), t + 1000)
             ELSE Append(WideSubFrom(x, y, i - 1, 0), t)

WideSub(x, y) == WideSubFrom(x, y, Len(x), 0)

\* a whole number of assets (units of 1.0) in grid steps
WideAssets(units) == WideMul(WideMul(WideMul(WideOf(units), 1000), 1000), Grid)

ceil_to_6dp_wide(n, d) == WideMul(WideCeilDiv(n, d * Grid), Grid)

floor_to_6dp_wide(n, d) == WideMul(WideFloorDiv(n, d * Grid), Grid)

\* mutant: the cost is charged on the raw amount
_cost_on_raw_wide(assets, cost_rate) ==
    ceil_to_6dp_wide(WideMul(assets, cost_rate.n), cost_rate.d)

_cost_on_total_wide(assets, cost_rate) ==
    ceil_to_6dp_wide(WideMul(assets, cost_rate.n), cost_rate.d + cost_rate.n)

\* the entry cost preview_deposit charges
entry_cost_wide(v, assets) ==
    LET pending == WideOf(v.pending_withdrawals)
        assets_to_utilize ==
            IF WideGt(assets, pending) THEN WideSub(assets, pending) ELSE WideOf(0)
    IN  _cost_on_total_wide(assets_to_utilize, v.entry_cost_rate)

\* preview_deposit for an amount no smaller than its entry cost
preview_deposit_wide(v, assets) ==
    LET assets_after_entry_cost == WideSub(assets, entry_cost_wide(v, assets))
    IN  floor_to_6dp_wide(WideMul(assets_after_entry_cost, v.share_price.d),
                          v.share_price.n)

\* the amounts deposited, in whole assets
ExampleAssets == (100000 - MaxExample)..(100000 + MaxExample)

ExampleState == LogarithmVaultGlobalState(Frac(2, 1), 0, 0)

InitExample ==
    /\ vault = [v \in Vaults |->
                   update_state(NewLogarithmVault(DefaultRate, DefaultRate),
                                ExampleState).vault]
    /\ meta = NewMetaVault
    /\ \E arg \in ExampleAssets : op = [NoOp EXCEPT !.arg = arg]
    /\ hist = NoHist

\* action_deposit(op.arg) on the vault, which holds no shares yet
ExampleDeposit ==
    /\ op.name = "init"
    /\ LET assets == WideAssets(op.arg)
           shares_to_mint == preview_deposit_wide(vault[Direct], assets)
       IN  /\ op' = [name |-> "action_deposit", arg |-> op.arg,
                     ret |-> shares_to_mint, exc |-> NoExc]
           /\ vault' = [vault EXCEPT ![Direct].shares = shares_to_mint,
                                     ![Direct].open_assets = assets]
    /\ UNCHANGED <<meta, hist>>

NextExample == ExampleDeposit

SpecExample == InitExample /\ [][NextExample]_vars

(***************************************************************************)
(* Spec: the MetaVault over the sub-vaults.  The sub-vaults change only    *)
(* through the state feed (update_state) and the aggregator's batches.     *)
(* Every sequence of at most MaxSteps calls is explored; hist.steps counts *)
(* the calls made, those that raise included.                              *)
(***************************************************************************)
\* an entity that is not a LogarithmVault
Other == "other"

BatchAmounts == -1..MaxBatchAmount

\* the amounts of the batches of more than one pair
LongBatchAmounts == {-1, 0, DUST + 1, MaxBatchAmount}

Batch(targets, amounts) == [targets |-> targets, amounts |-> amounts]

\* sequences of length n over S
SeqsOf(S, n) == [1..n -> S]

\* batches of 1..MaxBatch pairs over the registered sub-vaults
PairBatches ==
    UNION {{Batch(t, a) :
               t \in SeqsOf(Vaults, n),
               a \in SeqsOf(IF n = 1 THEN BatchAmounts ELSE LongBatchAmounts, n)} :
              n \in 1..MaxBatch}

\* batches the shape checks reject: empty lists, lists of different lengths
ShapeErrorBatches ==
    {Batch([i \in 1..q[1] |-> Direct], [i \in 1..q[2] |-> 1]) :
        q \in {r \in (0..MaxBatch) \X (0..MaxBatch) : r[1] # r[2] \/ r[1] = 0}}

\* batches with a target that is not a LogarithmVault
TypeErrorBatches ==
    UNION {{Batch(t, [i \in 1..n |-> 1]) :
               t \in {u \in SeqsOf(Vaults \cup {Other}, n) : \E i \in 1..n : u[i] = Other}} :
              n \in 1..MaxBatch}

BatchInputs == PairBatches \cup ShapeErrorBatches \cup TypeErrorBatches

\* batches that name for each target all the shares it holds / its whole balance
FullRedeemBatches ==
    UNION {{Batch(t, [i \in 1..n |-> vault[t[i]].shares]) : t \in SeqsOf(Vaults, n)} :
              n \in 1..MaxBatch}

FullWithdrawBatches ==
    UNION {{Batch(t, [i \in 1..n |-> balance(vault[t[i]])]) : t \in SeqsOf(Vaults, n)} :
              n \in 1..MaxBatch}

RedeemInputs == BatchInputs \cup FullRedeemBatches

WithdrawInputs == BatchInputs \cup FullWithdrawBatches

\* the amounts of the aggregator's own deposits and withdrawals
DepositInputs == BatchAmounts

WithdrawalInputs == BatchAmounts \cup {MetaVault_total_assets(meta, vault)}

\* the global states the feed pushes: the valid ones with a whole-number share
\* price, and one for each check of update_state
FeedStates ==
    {state \in PushedStates : ValidState(state) /\ state.share_price.d = 1}
    \cup {LogarithmVaultGlobalState(Frac(0, 1), 0, 0),
          LogarithmVaultGlobalState(Frac(1, 1), -1, 0),
          LogarithmVaultGlobalState(Frac(1, 1), MaxLiquidity, MaxLiquidity)}

\* one more call is made
Step ==
    /\ hist.steps < MaxSteps
    /\ hist' = [hist EXCEPT !.steps = @ + 1]
    /\ UNCHANGED op

\* a call on the aggregator
MetaCall(outcome) ==
    /\ Step
    /\ \E r \in {outcome} :
           /\ meta' = r.meta
           /\ vault' = r.vault

\* the sub-vaults registered with the aggregator: one built with the default
\* cost rates, one free of costs
Registered ==
    [v \in Vaults |-> IF v = Direct THEN NewLogarithmVault(DefaultRate, DefaultRate)
                                     ELSE NewLogarithmVault(Frac(0, 1), Frac(0, 1))]

Init ==
    /\ vault = Registered
    /\ meta = NewMetaVault
    /\ op = NoOp
    /\ hist = NoHist

\* the state feed pushes a global state into a sub-vault
FeedUpdateState ==
    \E v \in Vaults, state \in FeedStates :
        /\ Step
        /\ vault' = [vault EXCEPT ![v] = update_state(vault[v], state).vault]
        /\ UNCHANGED meta

MetaDeposit ==
    \E assets \in DepositInputs : MetaCall(MetaVault_action_deposit(meta, vault, assets))

MetaWithdraw ==
    \E assets \in WithdrawalInputs : MetaCall(MetaVault_action_withdraw(meta, vault, assets))

AllocateAssets ==
    \E b \in BatchInputs :
        MetaCall(MetaVault_action_allocate_assets(meta, vault, b.targets, b.amounts))

RedeemAllocations ==
    \E b \in RedeemInputs :
        MetaCall(MetaVault_action_redeem_allocations(meta, vault, b.targets, b.amounts))

WithdrawAllocations ==
    \E b \in WithdrawInputs :
        MetaCall(MetaVault_action_withdraw_allocations(meta, vault, b.targets, b.amounts))

Next ==
    \/ FeedUpdateState
    \/ MetaDeposit
    \/ MetaWithdraw
    \/ AllocateAssets
    \/ RedeemAllocations
    \/ WithdrawAllocations

Spec == Init /\ [][Next]_vars

(***************************************************************************)
(* SpecFloat: action_allocate_assets in floating point.  The amounts are   *)
(* Python floats, and sum(amounts), the shortfall and the adjusted first   *)
(* amount are each rounded to the nearest float (ties to even).  A float   *)
(* of the code has 53 significant bits; here it has MantissaBits, so that  *)
(* the rounding the code meets on amounts such as 197.8 is met on the      *)
(* small amounts of the model.  The sub-vaults keep the exact arithmetic   *)
(* of their 6-decimal rounding.                                            *)
(***************************************************************************)
\* the spacing of the floats around a >= 0
RECURSIVE UlpOf(_, _)
UlpOf(a, u) == IF a < (2 ^ MantissaBits) * u THEN u ELSE UlpOf(a, 2 * u)

\* x rounded to the nearest float, ties to the even mantissa
fl(x) ==
    LET a == Abs(x)
        u == UlpOf(a, 1)
        q == a \div u
        r == a % u
        up == 2 * r > u \/ (2 * r = u /\ q % 2 = 1)
        rounded == (IF up THEN q + 1 ELSE q) * u
    IN  IF x < 0 THEN -rounded ELSE rounded

\* sum(amounts): the running total is rounded after every addition
RECURSIVE float_sum(_, _)
float_sum(amounts, total) ==
    IF amounts = <<>> THEN total
    ELSE float_sum(Tail(amounts), fl(total + Head(amounts)))

float_idle_assets(m) ==
    LET idle == fl(m._assets - m._cumulative_requested_withdrawals)
    IN  IF idle > 0 THEN idle ELSE 0

\* amounts as applied: the shortfall taken off amounts[0], then dust zeroed
float_adjusted_amounts(m, amounts) ==
    LET shortfall == fl(float_sum(amounts, 0) - float_idle_assets(m))
        adjusted ==
            [amounts EXCEPT ![1] = fl(@ - (IF shortfall > 0 THEN shortfall ELSE 0))]
    IN  [i \in 1..Len(amounts) |-> IF adjusted[i] > DUST THEN adjusted[i] ELSE 0]

\* the apply loop of action_allocate_assets from pair i on
RECURSIVE float_allocate_loop(_, _, _, _, _)
float_allocate_loop(m, vs, targets, amounts, i) ==
    IF i > Len(targets) THEN MetaOutcome(m, vs, amounts, NoExc)
    ELSE LET target == targets[i]
             amount == amounts[i]
             r == action_deposit(vs[target], amount)
         IN  IF r.exc # NoExc THEN MetaOutcome(m, vs, amounts, r.exc)
             ELSE LET vs1 == [vs EXCEPT ![target] = r.vault]
                      m1 == [m EXCEPT !._assets = fl(@ - amount)]
                      m2 == IF IsAllocated(m1, target) THEN m1
                            ELSE [m1 EXCEPT !._allocated_vaults = Append(@, target)]
                  IN  float_allocate_loop(m2, vs1, targets, amounts, i + 1)

\* action_allocate_assets; the outcome's ret is the list of the amounts applied
float_action_allocate_assets(m, vs, targets, amounts) ==
    IF BadBatchShape(targets, amounts) THEN MetaRaise(m, vs)
    ELSE IF \E i \in 1..Len(amounts) : amounts[i] < 0 THEN MetaRaise(m, vs)
    ELSE LET applied == float_adjusted_amounts(m, amounts)
         IN  IF float_sum(applied, 0) > float_idle_assets(m) THEN MetaRaise(m, vs)
             ELSE float_allocate_loop(m, vs, targets, applied, 1)

\* the floats from 0 to MaxFloat
FloatAmounts == {fl(x) : x \in 0..MaxFloat}

\* the targets of a batch of n pairs that names the sub-vaults t[1], t[2] in turn
FloatTargets(t, n) == [i \in 1..n |-> IF i % 2 = 1 THEN t[1] ELSE t[2]]

\* the aggregator after its first deposit
InitFloat ==
    /\ vault = Registered
    /\ \E assets \in FloatAmounts :
           meta = MetaVault_action_deposit(NewMetaVault, Registered, assets).meta
    /\ op = NoOp
    /\ hist = NoHist

FloatAllocateAssets ==
    \E n \in 1..MaxFloatBatch, t \in Vaults \X Vaults :
        \E amounts \in SeqsOf(FloatAmounts, n) :
            /\ hist.steps < MaxFloatSteps
            /\ MetaCall(float_action_allocate_assets(meta, vault, FloatTargets(t, n),
                                                      amounts))

NextFloat == FloatAllocateAssets

SpecFloat == InitFloat /\ [][NextFloat]_vars

(***************************************************************************)
(* curator/utils/validate_actions.py.  A validator returns a               *)
(* ValidationFeedback (feedback, result); the feedback is modelled by the  *)
(* fixed part of its text.  The balance table is a function from the names *)
(* it has an entry for to their balances; looking up a name it has no      *)
(* entry for raises KeyError.  Weights are counted in steps of             *)
(* 1/WeightSteps.                                                          *)
(***************************************************************************)
KeyError == "KeyError"

ValidationFeedback(feedback, result) ==
    [feedback |-> feedback, result |-> result, exc |-> NoExc]

\* balances[vault_name] of a name the table has no entry for
RaiseKeyError == [feedback |-> "", result |-> "", exc |-> KeyError]

validate_allocation(total_assets, vault_names, allocations) ==
    IF Len(vault_names) # Len(allocations)
    THEN ValidationFeedback("The lengths of vaults names and allocations should match.",
                            "fail")
    ELSE IF \E i \in 1..Len(allocations) : allocations[i] < 0
    THEN ValidationFeedback("The allocation amount cannot be negative.", "fail")
    ELSE IF total_assets < SeqSum(allocations)
    THEN ValidationFeedback("Sum of allocations cannot exceed the total asset amount",
                            "fail")
    ELSE ValidationFeedback("", "pass")

\* the loop over zip(vault_names, amounts) of validate_withdraw and validate_redeem,
\* from pair i on
RECURSIVE BalanceLoop(_, _, _, _)
BalanceLoop(vault_names, amounts, balances, i) ==
    IF i > Len(vault_names) \/ i > Len(amounts) THEN ValidationFeedback("", "pass")
    ELSE IF vault_names[i] \notin DOMAIN balances THEN RaiseKeyError
    ELSE IF amounts[i] > 0 /\ balances[vault_names[i]] = 0
    THEN ValidationFeedback("it dose not have allocation.", "fail")
    ELSE IF amounts[i] > balances[vault_names[i]]
    THEN ValidationFeedback("cannot exceeds the the balance", "fail")
    ELSE BalanceLoop(vault_names, amounts, balances, i + 1)

validate_withdraw(total_assets, vault_names, withdrawals, balances) ==
    IF Len(vault_names) # Len(withdrawals)
    THEN ValidationFeedback("The length of vaults names is not the same as the length of withdrawal amounts.",
                            "fail")
    ELSE IF \E i \in 1..Len(withdrawals) : withdrawals[i] < 0
    THEN ValidationFeedback("The withdrawal amount cannot be negative.", "fail")
    ELSE IF total_assets > SeqSum(withdrawals)
    THEN ValidationFeedback("Sum of withdraw amounts cannot be smaller than the total asset amount",
                            "fail")
    ELSE BalanceLoop(vault_names, withdrawals, balances, 1)

validate_redeem(vault_names, redeem_shares, balances) ==
    IF Len(vault_names) = 0 THEN ValidationFeedback("", "pass")
    ELSE IF Len(vault_names) # Len(redeem_shares)
    THEN ValidationFeedback("The length of vaults names is not the same as the length of share amounts.",
                            "fail")
    ELSE IF \E i \in 1..Len(redeem_shares) : redeem_shares[i] < 0
    THEN ValidationFeedback("The share amount cannot be negative.", "fail")
    ELSE BalanceLoop(vault_names, redeem_shares, balances, 1)

validate_reallocation(vault_names, weights) ==
    IF Len(vault_names) = 0 THEN ValidationFeedback("", "pass")
    ELSE IF Len(vault_names) # Len(weights)
    THEN ValidationFeedback("The length of vaults names is not the same as the length of weights.",
                            "fail")
    ELSE IF \E i \in 1..Len(weights) : weights[i] < 0 \/ weights[i] > WeightSteps
    THEN ValidationFeedback("The weight should be between 0 and 1.", "fail")
    ELSE IF SeqSum(weights) # WeightSteps
    THEN ValidationFeedback("Sum of weights should equal to 1.", "fail")
    ELSE ValidationFeedback("", "pass")

(***************************************************************************)
(* SpecValidate: the four validators applied to one proposed batch.  The   *)
(* batch (declared total, names, amounts, balance table) is drawn once,    *)
(* into op.arg; every validator is then called on it.                      *)
(***************************************************************************)
\* amounts, share amounts and weights of a proposed batch
ValidatedAmounts == -1..MaxValidated

\* balance tables: an entry for some of the sub-vaults, as the caller builds them
BalanceTables == UNION {[S -> {0, 1, MaxValidated}] : S \in SUBSET Vaults}

Proposal(total, names, amounts, balances) ==
    [total |-> total, names |-> names, amounts |-> amounts, balances |-> balances]

InitValidate ==
    /\ vault = Registered
    /\ meta = NewMetaVault
    /\ \E total \in 0..MaxValidated, n \in 0..MaxBatch, k \in 0..MaxBatch,
          balances \in BalanceTables :
           \E names \in SeqsOf(Vaults, n), amounts \in SeqsOf(ValidatedAmounts, k) :
               op = [NoOp EXCEPT !.arg = Proposal(total, names, amounts, balances)]
    /\ hist = NoHist

\* a validator was called on the proposal: its result and exception are recorded
ValidateCall(name, r) ==
    /\ op' = [name |-> name, arg |-> op.arg, ret |-> r.result, exc |-> r.exc]
    /\ UNCHANGED <<vault, meta, hist>>

ValidateAllocation ==
    ValidateCall("validate_allocation",
                 validate_allocation(op.arg.total, op.arg.names, op.arg.amounts))

ValidateWithdraw ==
    ValidateCall("validate_withdraw",
                 validate_withdraw(op.arg.total, op.arg.names, op.arg.amounts,
                                   op.arg.balances))

ValidateRedeem ==
    ValidateCall("validate_redeem",
                 validate_redeem(op.arg.names, op.arg.amounts, op.arg.balances))

ValidateReallocation ==
    ValidateCall("validate_reallocation",
                 validate_reallocation(op.arg.names, op.arg.amounts))

NextValidate ==
    \/ ValidateAllocation
    \/ ValidateWithdraw
    \/ ValidateRedeem
    \/ ValidateReallocation

SpecValidate == InitValidate /\ [][NextValidate]_vars

(***************************************************************************)
(* back_test/baseline_strategy.py.  BaselineStrategy.predict decides the   *)
(* action batches of a simulation step from the ledger and from the        *)
(* forecast of _analyze_share_price_trend.  The forecast is computed from  *)
(* the stored share-price history, which the model does not keep: it is an *)
(* input of predict, analysis_result, giving each sub-vault's              *)
(* forecast_increase_rate as a fraction.  The strategy's own fields are    *)
(* the record s (_window_size, _init_window_size, WINDOW_SIZE).            *)
(***************************************************************************)
LOG_VAULT_NAMES == <<"v1", "v2">>

FracLess(x, y) == x.n * y.d < y.n * x.d

Min(a, b) == IF a < b THEN a ELSE b

\* names with name inserted behind every element it does not come before
RECURSIVE InsertByKey(_, _, _, _)
InsertByKey(names, name, key, reverse) ==
    IF names = <<>> THEN <<name>>
    ELSE LET before == IF reverse THEN FracLess(key[Head(names)], key[name])
                                   ELSE FracLess(key[name], key[Head(names)])
         IN  IF before THEN <<name>> \o names
             ELSE <<Head(names)>> \o InsertByKey(Tail(names), name, key, reverse)

\* sorted(names, key=lambda x: key[x], reverse=reverse), which is stable
RECURSIVE sorted(_, _, _)
sorted(names, key, reverse) ==
    IF names = <<>> THEN <<>>
    ELSE InsertByKey(sorted(SubSeq(names, 1, Len(names) - 1), key, reverse),
                     names[Len(names)], key, reverse)

ActionToTake(action, targets, amounts) ==
    [action |-> action, targets |-> targets, amounts |-> amounts]

\* preview_withdraw for an amount of n/d grid steps, d > 0
preview_withdraw_of(v, n, d) ==
    LET assets_from_deutilize == IF n > v.idle_assets * d THEN n - v.idle_assets * d ELSE 0
        exit_cost ==
            ceil_to_6dp(assets_from_deutilize * v.exit_cost_rate.n, d * v.exit_cost_rate.d)
        assets_after_exit_cost == n + exit_cost * d
    IN  ceil_to_6dp(assets_after_exit_cost * v.share_price.d, d * v.share_price.n)

\* the first loop of _allocate_assets from the i-th vault of the order on; acc is
\* the amount left and the allocations dict (keys in targets, values in amounts)
RECURSIVE AllocatePendingLoop(_, _, _, _, _)
AllocatePendingLoop(vs, analysis_result, order, i, acc) ==
    IF i > Len(order) THEN acc
    ELSE IF acc.amount > 0 /\ analysis_result[order[i]].n > 0
    THEN LET available_assets == Min(acc.amount, vs[order[i]].pending_withdrawals)
         IN  AllocatePendingLoop(vs, analysis_result, order, i + 1,
                                 [amount |-> acc.amount - available_assets,
                                  targets |-> Append(acc.targets, order[i]),
                                  amounts |-> Append(acc.amounts, available_assets)])
    ELSE acc

\* mutant: one ActionToTake for each vault of the allocations
allocate_assets_one_action_each(vs, analysis_result, amount) ==
    LET order == sorted(LOG_VAULT_NAMES, analysis_result, TRUE)
        pending == AllocatePendingLoop(vs, analysis_result, order, 1,
                                       [amount |-> amount, targets |-> <<>>,
                                        amounts |-> <<>>])
        topped == IF pending.amount > 0 /\ analysis_result[order[1]].n > 0
                  THEN [pending EXCEPT !.amounts[1] = @ + pending.amount, !.amount = 0]
                  ELSE pending
    IN  IF topped.amount = 0
        THEN [i \in 1..Len(topped.targets) |->
                 ActionToTake("allocate_assets", <<topped.targets[i]>>,
                              <<topped.amounts[i]>>)]
        ELSE <<>>

_allocate_assets(vs, analysis_result, amount) ==
    LET order == sorted(LOG_VAULT_NAMES, analysis_result, TRUE)
        pending == AllocatePendingLoop(vs, analysis_result, order, 1,
                                       [amount |-> amount, targets |-> <<>>,
                                        amounts |-> <<>>])
        topped == IF pending.amount > 0 /\ analysis_result[order[1]].n > 0
                  THEN [pending EXCEPT !.amounts[1] = @ + pending.amount, !.amount = 0]
                  ELSE pending
    IN  IF topped.amount = 0
        THEN <<ActionToTake("allocate_assets", topped.targets, topped.amounts)>>
        ELSE <<>>

\* the first loop of _withdraw_assets: idle assets first
RECURSIVE WithdrawIdleLoop(_, _, _, _)
WithdrawIdleLoop(vs, order, i, acc) ==
    IF i > Len(order) THEN acc
    ELSE IF acc.amount > 0
    THEN LET available_assets ==
                 Min(acc.amount, Min(balance(vs[order[i]]), vs[order[i]].idle_assets))
         IN  WithdrawIdleLoop(vs, order, i + 1,
                              [acc EXCEPT !.amount = @ - available_assets,
                                          !.targets = Append(@, order[i]),
                                          !.amounts = Append(@, available_assets)])
    ELSE acc

\* the second loop of _withdraw_assets: by exit cost; withdrawals[vault_name] +=
\* raises KeyError for a vault the first loop did not reach
RECURSIVE WithdrawByCostLoop(_, _, _, _)
WithdrawByCostLoop(vs, order, i, acc) ==
    IF i > Len(order) THEN acc
    ELSE IF acc.amount > 0
    THEN LET available_assets == Min(acc.amount, balance(vs[order[i]]))
             held == {k \in 1..Len(acc.targets) : acc.targets[k] = order[i]}
         IN  IF held = {} THEN [acc EXCEPT !.exc = KeyError]
             ELSE WithdrawByCostLoop(vs, order, i + 1,
                      [acc EXCEPT !.amount = @ - available_assets,
                                  !.amounts[CHOOSE k \in held : TRUE] = @ + available_assets])
    ELSE acc

\* the outcome of a part of predict: the actions returned and the exception
Predicted(actions, exc) == [actions |-> actions, exc |-> exc]

_withdraw_assets(vs, analysis_result, amount) ==
    LET by_forecast == sorted(LOG_VAULT_NAMES, analysis_result, FALSE)
        idle == WithdrawIdleLoop(vs, by_forecast, 1,
                                 [amount |-> amount, targets |-> <<>>, amounts |-> <<>>,
                                  exc |-> NoExc])
        by_exit_cost ==
            sorted(LOG_VAULT_NAMES, [n \in DOMAIN vs |-> vs[n].exit_cost_rate], FALSE)
        withdrawals == WithdrawByCostLoop(vs, by_exit_cost, 1, idle)
    IN  IF withdrawals.exc # NoExc THEN Predicted(<<>>, withdrawals.exc)
        ELSE Predicted(<<ActionToTake("withdraw_allocations", withdrawals.targets,
                                      withdrawals.amounts)>>, NoExc)

\* the shares _rebalance_assets redeems from a vault whose forecast rate is negative
RedemptionShares(v, rate) ==
    LET abs_rate == Frac(Abs(rate.n), rate.d)
    IN  IF FracLess(v.exit_cost_rate, abs_rate) THEN v.shares
        ELSE IF balance(v) > v.idle_assets
        THEN LET available_assets == balance(v) - v.idle_assets
                 \* additional_assets + idle_assets, as a fraction
                 d == abs_rate.d * v.exit_cost_rate.n
                 n == abs_rate.n * available_assets * v.exit_cost_rate.d + v.idle_assets * d
             IN  preview_withdraw_of(v, n, d)
        ELSE v.shares

\* the loop of _rebalance_assets that picks the redemption vaults
RECURSIVE RedemptionLoop(_, _, _, _)
RedemptionLoop(vs, analysis_result, i, acc) ==
    IF i > Len(LOG_VAULT_NAMES) THEN acc
    ELSE LET vault_name == LOG_VAULT_NAMES[i]
         IN  IF analysis_result[vault_name].n < 0
             THEN LET shares == RedemptionShares(vs[vault_name], analysis_result[vault_name])
                  IN  RedemptionLoop(vs, analysis_result, i + 1,
                          [targets |-> Append(acc.targets, vault_name),
                           amounts |-> Append(acc.amounts, shares),
                           total_withdrawals |->
                               acc.total_withdrawals + preview_redeem(vs[vault_name], shares)])
             ELSE RedemptionLoop(vs, analysis_result, i + 1, acc)

_rebalance_assets(vs, analysis_result) ==
    LET redemptions ==
            RedemptionLoop(vs, analysis_result, 1,
                           [targets |-> <<>>, amounts |-> <<>>, total_withdrawals |-> 0])
    IN  IF redemptions.total_withdrawals > 0
        THEN <<ActionToTake("redeem_allocations", redemptions.targets, redemptions.amounts)>>
                 \o _allocate_assets(vs, analysis_result, redemptions.total_withdrawals)
        ELSE <<>>

\* the outcome of predict: the aggregator and the strategy afterwards, the actions
\* returned, the exception
PredictOutcome(m, s, actions, exc) ==
    [meta |-> m, strategy |-> s, actions |-> actions, exc |-> exc]

predict(m, vs, s, analysis_result) ==
    LET flow == IF m.deposits > 0 THEN MetaVault_action_deposit(m, vs, m.deposits)
                ELSE IF m.withdrawals > 0
                THEN MetaVault_action_withdraw(m, vs,
                         Min(m.withdrawals, MetaVault_total_assets(m, vs)))
                ELSE MetaOutcome(m, vs, 0, NoExc)
        m1 == flow.meta
    IN  IF flow.exc # NoExc THEN PredictOutcome(m1, s, <<>>, flow.exc)
        ELSE IF s._init_window_size # 0
        THEN PredictOutcome(m1, [s EXCEPT !._init_window_size = @ - 1], <<>>, NoExc)
        ELSE IF s._window_size = 0
        THEN LET s1 == [s EXCEPT !._window_size = s.WINDOW_SIZE]
             IN  IF MetaVault_idle_assets(m1) > DUST
                 THEN PredictOutcome(m1, s1,
                          _allocate_assets(vs, analysis_result, MetaVault_idle_assets(m1)),
                          NoExc)
                 ELSE IF MetaVault_pending_withdrawals(m1) > DUST
                 THEN LET w == _withdraw_assets(vs, analysis_result,
                                                MetaVault_pending_withdrawals(m1))
                      IN  PredictOutcome(m1, s1, w.actions, w.exc)
                 ELSE PredictOutcome(m1, s1, _rebalance_assets(vs, analysis_result), NoExc)
        ELSE PredictOutcome(m1, [s EXCEPT !._window_size = @ - 1], <<>>, NoExc)

(***************************************************************************)
(* SpecStrategy: the simulation steps of a BaselineStrategy run.  A step   *)
(* pushes an observation (a global state for every sub-vault and for the   *)
(* aggregator), calls predict, and executes the actions predict returned,  *)
(* in order, on the aggregator.  An exception ends the run.  hist holds    *)
(* the strategy's fields, the position within the step and the number of   *)
(* observations pushed.  The run starts after set_up, at any point of the  *)
(* initial window in which nothing has been fed yet.                       *)
(***************************************************************************)
\* INIT_BALANCE of the strategy's parameters
InitBalances == {MaxInitBalance - 2, MaxInitBalance}

\* WINDOW_SIZE of the strategy's parameters, and what is left of the initial window
WindowSizes == 0..MaxWindow

ForecastRates == {Frac(-1, 100), Frac(-1, 1000), Frac(0, 1), Frac(1, 100)}

\* the sub-vaults set_up registers: LogarithmVault() each
StrategyVaults == [v \in Vaults |-> NewLogarithmVault(DefaultRate, DefaultRate)]

\* the sub-vault states of an observation
ObservedStates ==
    {LogarithmVaultGlobalState(Frac(1, 1), 0, 0),
     LogarithmVaultGlobalState(Frac(2, 1), 0, 0),
     LogarithmVaultGlobalState(Frac(2, 1), MaxLiquidity, 0),
     LogarithmVaultGlobalState(Frac(1, 1), 0, MaxLiquidity),
     LogarithmVaultGlobalState(Frac(1, 1), 0, 2 * MaxLiquidity)}

MetaVaultGlobalState(deposits, withdrawals) ==
    [deposits |-> deposits, withdrawals |-> withdrawals]

\* the aggregator states pushed: no flow, deposits, withdrawals, and one for each
\* check of update_state
MetaPushedStates ==
    {MetaVaultGlobalState(0, 0), MetaVaultGlobalState(MaxBatchAmount, 0),
     MetaVaultGlobalState(0, MaxBatchAmount), MetaVaultGlobalState(-1, 0),
     MetaVaultGlobalState(0, -1), MetaVaultGlobalState(1, MaxBatchAmount)}

InitStrategy ==
    /\ vault = StrategyVaults
    /\ \E assets \in InitBalances :
           meta = MetaVault_action_deposit(NewMetaVault, StrategyVaults, assets).meta
    /\ op = NoOp
    /\ \E window \in WindowSizes, left \in WindowSizes :
           hist = [strategy |-> [_window_size |-> window, _init_window_size |-> left,
                                 WINDOW_SIZE |-> window],
                   phase |-> "feed", steps |-> 0]

\* update_state on every entity of the observation, the aggregator last
ObservationFeed ==
    \E states \in [Vaults -> ObservedStates], state \in MetaPushedStates :
        LET vs == [v \in Vaults |-> update_state(vault[v], states[v]).vault]
            r == MetaVault_update_state(meta, vs, state)
        IN  /\ hist.phase = "feed"
            /\ op.exc = NoExc
            /\ hist.steps < MaxObservations
            /\ vault' = r.vault
            /\ meta' = r.meta
            /\ op' = [name |-> "update_state", arg |-> state, ret |-> 0, exc |-> r.exc]
            /\ hist' = [hist EXCEPT !.phase = "predict", !.steps = @ + 1]

Predict ==
    \E analysis_result \in [Vaults -> ForecastRates] :
        LET r == predict(meta, vault, hist.strategy, analysis_result)
        IN  /\ hist.phase = "predict"
            /\ op.exc = NoExc
            /\ meta' = r.meta
            /\ op' = [name |-> "predict", arg |-> analysis_result, ret |-> r.actions,
                      exc |-> r.exc]
            /\ hist' = [hist EXCEPT !.phase = "execute", !.strategy = r.strategy]
            /\ UNCHANGED vault

\* the action of the given name called on the aggregator
ExecuteAction(m, vs, a) ==
    IF a.action = "allocate_assets"
    THEN MetaVault_action_allocate_assets(m, vs, a.targets, a.amounts)
    ELSE IF a.action = "redeem_allocations"
    THEN MetaVault_action_redeem_allocations(m, vs, a.targets, a.amounts)
    ELSE MetaVault_action_withdraw_allocations(m, vs, a.targets, a.amounts)

\* the actions executed in order from the i-th on, up to the first that raises
RECURSIVE ExecuteLoop(_, _, _, _)
ExecuteLoop(m, vs, actions, i) ==
    IF i > Len(actions) THEN MetaOutcome(m, vs, Len(actions), NoExc)
    ELSE LET r == ExecuteAction(m, vs, actions[i])
         IN  IF r.exc # NoExc THEN MetaOutcome(r.meta, r.vault, i - 1, r.exc)
             ELSE ExecuteLoop(r.meta, r.vault, actions, i + 1)

Execute ==
    LET r == ExecuteLoop(meta, vault, op.ret, 1)
    IN  /\ hist.phase = "execute"
        /\ op.exc = NoExc
        /\ meta' = r.meta
        /\ vault' = r.vault
        /\ op' = [name |-> "execute", arg |-> op.ret, ret |-> r.ret, exc |-> r.exc]
        /\ hist' = [hist EXCEPT !.phase = "feed"]

NextStrategy == ObservationFeed \/ Predict \/ Execute

SpecStrategy == InitStrategy /\ [][NextStrategy]_vars

(***************************************************************************)
(* SpecFloatVault: one LogarithmVault in floating point.  A float is a     *)
(* whole number of quanta of 2^-FracBits with VaultMantissaBits            *)
(* significant bits (the code: 53), and every product, quotient, sum and   *)
(* difference is rounded to the nearest float, ties to even.  The 6-decimal*)
(* rounding of precision.py multiplies and divides by 1e6; here by         *)
(* Decimals, so that "a multiple of 1e-6" is the float nearest to          *)
(* k / Decimals.  The magnitudes at which the roundings of the code show   *)
(* (balances of 1e9 and more at 53 bits) are met on the small amounts of   *)
(* the model.                                                              *)
(***************************************************************************)
\* the float 1.0
Quantum == 2 ^ FracBits

\* the spacing of the floats around n/d >= 0
RECURSIVE SpacingOf(_, _, _)
SpacingOf(n, d, u) ==
    IF n < (2 ^ VaultMantissaBits) * u * d THEN u ELSE SpacingOf(n, d, 2 * u)

\* n/d (d > 0) rounded to the nearest float, ties to the even mantissa
RoundTo(n, d) ==
    LET a == Abs(n)
        u == SpacingOf(a, d, 1)
        q == a \div (d * u)
        r == a % (d * u)
        up == 2 * r > d * u \/ (2 * r = d * u /\ q % 2 = 1)
        rounded == (IF up THEN q + 1 ELSE q) * u
    IN  IF n < 0 THEN -rounded ELSE rounded

float_mul(x, y) == RoundTo(x * y, Quantum)

float_div(x, y) == RoundTo(x * Quantum, y)

float_add(x, y) == RoundTo(x + y, 1)

\* the float nearest to k / Decimals: k / 1e6 for an int k
float_6dp(k) == RoundTo(k * Quantum, Decimals)

\* math.ceil(amount * 1e6) / 1e6
float_ceil_to_6dp(amount) == float_6dp(CeilDiv(RoundTo(amount * Decimals, 1), Quantum))

\* math.floor(amount * 1e6) / 1e6
float_floor_to_6dp(amount) == float_6dp(FloorDiv(RoundTo(amount * Decimals, 1), Quantum))

\* LogarithmVault(entry, exit) with floats for its rates, share price, amounts
NewFloatVault(entry, exit) ==
    [entry_cost_rate |-> entry, exit_cost_rate |-> exit,
     share_price |-> Quantum, idle_assets |-> 0, pending_withdrawals |-> 0,
     shares |-> 0, open_assets |-> 0]

float_cost_on_raw(assets, cost_rate) == float_ceil_to_6dp(float_mul(assets, cost_rate))

float_cost_on_total(assets, cost_rate) ==
    float_ceil_to_6dp(float_div(float_mul(assets, cost_rate),
                                float_add(Quantum, cost_rate)))

float_preview_deposit(v, assets) ==
    LET assets_to_utilize ==
            IF assets > v.pending_withdrawals
            THEN float_add(assets, -v.pending_withdrawals) ELSE 0
        entry_cost == float_cost_on_total(assets_to_utilize, v.entry_cost_rate)
        assets_after_entry_cost == float_add(assets, -entry_cost)
        shares_in_return == float_div(assets_after_entry_cost, v.share_price)
    IN  float_floor_to_6dp(shares_in_return)

float_preview_redeem(v, shares) ==
    LET assets == float_floor_to_6dp(float_mul(shares, v.share_price))
        assets_to_deutilize ==
            IF assets > v.idle_assets THEN float_add(assets, -v.idle_assets) ELSE 0
        exit_cost == float_cost_on_total(assets_to_deutilize, v.exit_cost_rate)
        assets_after_exit_cost == float_add(assets, -exit_cost)
    IN  float_floor_to_6dp(assets_after_exit_cost)

float_preview_withdraw(v, assets) ==
    LET assets_from_deutilize ==
            IF assets > v.idle_assets THEN float_add(assets, -v.idle_assets) ELSE 0
        exit_cost == float_cost_on_raw(assets_from_deutilize, v.exit_cost_rate)
        assets_after_exit_cost == float_add(assets, exit_cost)
        shares_to_burn == float_div(assets_after_exit_cost, v.share_price)
    IN  float_ceil_to_6dp(shares_to_burn)

float_balance(v) == float_preview_redeem(v, v.shares)

float_update_internal_state(v, delta_shares, delta_assets) ==
    LET shares == float_add(v.shares, delta_shares)
    IN  [v EXCEPT !.shares = shares,
                  !.open_assets = IF shares = 0 THEN 0
                                  ELSE float_add(v.open_assets, delta_assets)]

float_action_deposit(v, assets) ==
    IF assets < 0 THEN Raise(v)
    ELSE LET shares_to_mint == float_preview_deposit(v, assets)
         IN  Outcome(float_update_internal_state(v, shares_to_mint, assets),
                     shares_to_mint, NoExc)

float_action_withdraw(v, assets) ==
    IF assets < 0 THEN Raise(v)
    ELSE LET allocated_assets == float_balance(v)
         IN  IF assets = allocated_assets
             THEN Outcome(float_update_internal_state(v, -v.shares, -allocated_assets),
                          v.shares, NoExc)
             ELSE IF assets > allocated_assets THEN Raise(v)
             ELSE LET shares_to_burn == float_preview_withdraw(v, assets)
                  IN  IF shares_to_burn > v.shares THEN Raise(v)
                      ELSE Outcome(float_update_internal_state(v, -shares_to_burn,
                                                               -assets),
                                   shares_to_burn, NoExc)

float_update_state(v, state) ==
    IF state.share_price <= 0 THEN Raise(v)
    ELSE IF state.idle_assets < 0 \/ state.pending_withdrawals < 0 THEN Raise(v)
    ELSE IF state.idle_assets > 0 /\ state.pending_withdrawals > 0 THEN Raise(v)
    ELSE Outcome([v EXCEPT !.share_price = state.share_price,
                           !.idle_assets = state.idle_assets,
                           !.pending_withdrawals = state.pending_withdrawals],
                 0, NoExc)

\* the multiples of 1e-6 a caller passes: the floats nearest to k / Decimals
FloatVaultAmounts == {float_6dp(k) : k \in 0..MaxFloatDeposit}

\* the global states pushed: share prices 0.5, 1.0, 2.0, idle assets 0.0 or 1.0
FloatPushedStates ==
    {LogarithmVaultGlobalState(p, i, 0) :
        p \in {Quantum \div 2, Quantum, 2 * Quantum}, i \in {0, Quantum}}

\* the constructor's (entry_cost_rate, exit_cost_rate) arguments: 0.0, and the
\* float nearest to 0.01
FloatRatePairs ==
    {<<0, 0>>, <<RoundTo(Quantum, 100), RoundTo(Quantum, 100)>>}

\* a call on the directly driven vault
FloatVaultCall(name, arg, outcome) ==
    /\ hist.steps < MaxFloatVaultSteps
    /\ hist' = [hist EXCEPT !.steps = @ + 1]
    /\ \E r \in {outcome} :
           /\ vault' = [vault EXCEPT ![Direct] = r.vault]
           /\ op' = [name |-> name, arg |-> arg, ret |-> r.ret, exc |-> r.exc]
    /\ UNCHANGED meta

InitFloatVault ==
    /\ \E rates \in FloatRatePairs :
           vault = [v \in Vaults |-> NewFloatVault(rates[1], rates[2])]
    /\ meta = NewMetaVault
    /\ op = NoOp
    /\ hist = NoHist

FloatVaultUpdateState ==
    \E state \in FloatPushedStates :
        FloatVaultCall("update_state", 0, float_update_state(vault[Direct], state))

FloatVaultDeposit ==
    \E assets \in FloatVaultAmounts :
        FloatVaultCall("action_deposit", assets,
                       float_action_deposit(vault[Direct], assets))

FloatVaultWithdraw ==
    \E assets \in FloatVaultAmounts :
        FloatVaultCall("action_withdraw", assets,
                       float_action_withdraw(vault[Direct], assets))

NextFloatVault == FloatVaultUpdateState \/ FloatVaultDeposit \/ FloatVaultWithdraw

SpecFloatVault == InitFloatVault /\ [][NextFloatVault]_vars

(***************************************************************************)
(* The claims.                                                             *)
(***************************************************************************)
\* the outcome r of a call on vault v raised and left v as it was
Rejected(r, v) == r.exc # NoExc /\ r.vault = v

\* the outcome r of a call on the aggregator left aggregator and sub-vaults as they were
Untouched(r) == r.meta = meta /\ r.vault = vault

\* C1 (as claimed): whenever action_redeem_allocations or
\* action_withdraw_allocations raises, on any batch, no sub-vault's shares or
\* open_assets and no aggregator field differs from its value before the call.
C1_BatchAllOrNothing ==
    /\ \A b \in RedeemInputs :
           LET r == MetaVault_action_redeem_allocations(meta, vault, b.targets, b.amounts)
           IN  r.exc # NoExc => Untouched(r)
    /\ \A b \in WithdrawInputs :
           LET r == MetaVault_action_withdraw_allocations(meta, vault, b.targets, b.amounts)
           IN  r.exc # NoExc => Untouched(r)

\* C2: with the global state held fixed and starting from zero shares, the assets
\* paid out by the successful action_redeem and action_withdraw calls never
\* exceed the assets paid in by the successful action_deposit calls.
C2_NeverPaysOutMoreThanPaidIn == hist.paid_out <= hist.paid_in

\* C2 witness: payments were made and everything paid in has been paid out again.
C2_Witness ==
    /\ hist.paid_in > 0
    /\ hist.paid_out = hist.paid_in
    /\ op.name \in {"action_redeem", "action_withdraw"}

\* C3: the shares preview_deposit(A) returns, redeemed under the same global
\* state, yield at most A: preview_redeem(preview_deposit(A)) <= A.
C3_DepositThenRedeemNoGain ==
    op.name = "preview_deposit" => preview_redeem(vault[Direct], op.ret) <= op.arg

\* C3 witness: a deposit charged an entry cost whose shares redeem to less than
\* was deposited, but to something.
C3_Witness ==
    /\ op.name = "preview_deposit"
    /\ vault[Direct].entry_cost_rate.n > 0
    /\ op.ret > 0
    /\ preview_redeem(vault[Direct], op.ret) > 0
    /\ preview_redeem(vault[Direct], op.ret) < op.arg

C5_WithdrawBalanceExitsFully ==
    LET v == vault[Direct]
        r == action_withdraw(v, balance(v))
    IN  /\ r.exc = NoExc
        /\ r.ret = v.shares
        /\ r.vault.shares = 0
        /\ r.vault.open_assets = 0

\* C6: a successful action_allocate_assets lowers idle_assets by exactly the sum
\* of the amounts deposited into the targets, and leaves pending_withdrawals and
\* the cumulative requested withdrawals as they were.
C6_AllocateLowersIdleByApplied ==
    \A b \in BatchInputs :
        LET r == MetaVault_action_allocate_assets(meta, vault, b.targets, b.amounts)
        IN  r.exc = NoExc =>
                /\ MetaVault_idle_assets(r.meta) = MetaVault_idle_assets(meta) - r.ret
                /\ MetaVault_pending_withdrawals(r.meta) = MetaVault_pending_withdrawals(meta)
                /\ r.meta._cumulative_requested_withdrawals
                       = meta._cumulative_requested_withdrawals

\* C6 witness: an allocation that succeeds after the shortfall was taken off its
\* first amount, from an aggregator that has allocated before.
C6_Witness ==
    /\ Len(meta._allocated_vaults) > 0
    /\ \E b \in BatchInputs :
           LET r == MetaVault_action_allocate_assets(meta, vault, b.targets, b.amounts)
           IN  /\ r.exc = NoExc
               /\ r.ret > 0
               /\ r.ret < SeqSum(b.amounts)

\* C7: the stored global state of a LogarithmVault always has share_price > 0,
\* idle_assets >= 0, pending_withdrawals >= 0 and not both of these positive, and
\* an update_state with an argument violating any of these raises.
C7_GlobalStateValid ==
    /\ ValidState(vault[Direct])
    /\ \A state \in PushedStates :
           ~ValidState(state) => Rejected(update_state(vault[Direct], state), vault[Direct])

\* C7 witness: an update_state was rejected on a vault holding shares whose
\* stored state has pending withdrawals.
C7_Witness ==
    /\ op.name = "update_state"
    /\ op.exc # NoExc
    /\ vault[Direct].pending_withdrawals > 0
    /\ vault[Direct].shares > 0

\* C8 (as claimed): a sub-vault is in the aggregator's allocated-vault list if and
\* only if its shares are strictly positive.
C8_AllocatedIffSharesPositive ==
    \A v \in Vaults : IsAllocated(meta, v) <=> vault[v].shares > 0

\* C9: action_allocate_assets raises and changes nothing whenever the lists differ
\* in length, a target is not a LogarithmVault, an amount is negative or the
\* adjusted amounts sum to more than idle_assets; and whenever it raises, nothing
\* has changed.
C9_AllocateRejectsWhole ==
    \A b \in BatchInputs :
        LET r == MetaVault_action_allocate_assets(meta, vault, b.targets, b.amounts)
            refused ==
                \/ Len(b.targets) # Len(b.amounts)
                \/ \E i \in 1..Len(b.targets) : ~IsLogarithmVault(b.targets[i])
                \/ \E i \in 1..Len(b.amounts) : b.amounts[i] < 0
                \/ /\ b.amounts # <<>>
                   /\ SeqSum(AdjustedAmounts(meta, b.amounts)) > MetaVault_idle_assets(meta)
        IN  /\ refused => r.exc # NoExc
            /\ r.exc # NoExc => Untouched(r)

\* C9 witness: the aggregator has idle assets and an allocated vault, and a batch
\* of non-negative amounts is refused because it still exceeds the idle assets.
C9_Witness ==
    /\ MetaVault_idle_assets(meta) > 0
    /\ \E v \in Vaults : vault[v].shares > 0
    /\ \E b \in PairBatches :
           /\ \A i \in 1..Len(b.amounts) : b.amounts[i] >= 0
           /\ SeqSum(AdjustedAmounts(meta, b.amounts)) > MetaVault_idle_assets(meta)
           /\ MetaVault_action_allocate_assets(meta, vault, b.targets, b.amounts).exc # NoExc

\* C10: action_deposit of a negative amount, action_redeem of a negative amount
\* or of more than the shares held, and action_withdraw of a negative amount or
\* of more than the balance each raise and leave the vault as it was.
C10_InvalidAmountsRejected ==
    LET v == vault[Direct]
    IN  \A x \in Amounts \cup {v.shares + 1, balance(v) + 1} :
            /\ x < 0 => Rejected(action_deposit(v, x), v)
            /\ (x < 0 \/ x > v.shares) => Rejected(action_redeem(v, x), v)
            /\ (x < 0 \/ x > balance(v)) => Rejected(action_withdraw(v, x), v)

\* C10 witness: a redeem of more shares than the vault holds was rejected.
C10_Witness ==
    /\ op.name = "action_redeem"
    /\ op.exc # NoExc
    /\ vault[Direct].shares > 0
    /\ op.arg > vault[Direct].shares

\* C11 (as claimed): action_withdraw(assets) on the aggregator raises, changing
\* nothing, exactly when assets < 0 or assets > total_assets; for every other
\* assets it returns normally, having burned assets * total_supply / total_assets
\* shares from total_supply.
C11_WithdrawFailsExactlyWhen ==
    \A assets \in WithdrawalInputs :
        LET r == MetaVault_action_withdraw(meta, vault, assets)
            total_assets == MetaVault_total_assets(meta, vault)
        IN  IF assets < 0 \/ assets > total_assets
            THEN r.exc # NoExc /\ Untouched(r)
            ELSE /\ r.exc = NoExc
                 /\ r.ret = FracNorm(assets * meta.total_supply.n,
                                     meta.total_supply.d * total_assets)
                 /\ r.meta.total_supply = FracSub(meta.total_supply, r.ret)

\* C12: a successful action_withdraw(assets) on the aggregator draws from idle
\* first: with assets <= idle_assets, idle_assets falls by assets and the
\* cumulative requested withdrawals stay; otherwise idle_assets becomes 0 and
\* the cumulative requested withdrawals rise by assets minus the prior
\* idle_assets; either way idle_assets - pending_withdrawals falls by assets.
\* An amount within total_assets but above idle_assets does not raise.
C12_WithdrawDrawsIdleFirst ==
    \A assets \in WithdrawalInputs :
        LET r == MetaVault_action_withdraw(meta, vault, assets)
            idle == MetaVault_idle_assets(meta)
            requested == meta._cumulative_requested_withdrawals
        IN  /\ (idle < assets /\ assets <= MetaVault_total_assets(meta, vault))
                   => r.exc = NoExc
            /\ r.exc = NoExc =>
                   /\ IF assets <= idle
                      THEN /\ MetaVault_idle_assets(r.meta) = idle - assets
                           /\ r.meta._cumulative_requested_withdrawals = requested
                      ELSE /\ MetaVault_idle_assets(r.meta) = 0
                           /\ r.meta._cumulative_requested_withdrawals
                                  = requested + (assets - idle)
                   /\ MetaVault_balance(r.meta) = MetaVault_balance(meta) - assets

\* C12 witness: the aggregator holds idle assets and a withdrawal of more than
\* these succeeds.
C12_Witness ==
    /\ MetaVault_idle_assets(meta) > 0
    /\ \E assets \in WithdrawalInputs :
           /\ assets > MetaVault_idle_assets(meta)
           /\ MetaVault_action_withdraw(meta, vault, assets).exc = NoExc

\* C13: action_deposit(assets) on the aggregator with assets >= 0 mints assets
\* shares when total_assets = 0 and assets * total_supply / total_assets
\* otherwise, adds the minted shares to total_supply and adds assets to the raw
\* assets, so that idle_assets - pending_withdrawals and total_assets rise by
\* assets; with assets < 0 it raises and changes nothing.
C13_DepositMintsProportionally ==
    \A assets \in DepositInputs :
        LET r == MetaVault_action_deposit(meta, vault, assets)
            total_assets == MetaVault_total_assets(meta, vault)
            minted == IF total_assets = 0 THEN Frac(assets, 1)
                      ELSE FracNorm(assets * meta.total_supply.n,
                                    meta.total_supply.d * total_assets)
        IN  IF assets < 0 THEN r.exc # NoExc /\ Untouched(r)
            ELSE /\ r.exc = NoExc
                 /\ r.ret = minted
                 /\ r.meta.total_supply = FracAdd(meta.total_supply, minted)
                 /\ r.meta._assets = meta._assets + assets
                 /\ MetaVault_balance(r.meta) = MetaVault_balance(meta) + assets
                 /\ MetaVault_total_assets(r.meta, r.vault) = total_assets + assets

\* C13 witness: a deposit into an aggregator whose shares are no longer worth
\* one asset each mints a number of shares different from the assets.
C13_Witness ==
    /\ MetaVault_total_assets(meta, vault) > 0
    /\ meta.total_supply.n > 0
    /\ \E assets \in DepositInputs :
           /\ assets > 0
           /\ MetaVault_action_deposit(meta, vault, assets).exc = NoExc
           /\ MetaVault_action_deposit(meta, vault, assets).ret # Frac(assets, 1)

\* C14 (as claimed): whenever total_supply is 0, action_deposit(A) with A > 0 on
\* the aggregator mints exactly A shares and total_supply becomes A; on a freshly
\* constructed aggregator idle_assets becomes A as well.
C14_FirstDepositMintsAtPar ==
    \A assets \in DepositInputs :
        LET r == MetaVault_action_deposit(meta, vault, assets)
        IN  (assets > 0 /\ meta.total_supply = Frac(0, 1)) =>
                /\ r.exc = NoExc
                /\ r.ret = Frac(assets, 1)
                /\ r.meta.total_supply = Frac(assets, 1)
                /\ meta = NewMetaVault => MetaVault_idle_assets(r.meta) = assets

\* a wide amount of grid steps in units of 1e-6, rounded down
WideMicro(x) == WideFloorDiv(x, Grid)

\* C15 (as claimed): with share_price 2.0, entry_cost_rate 0.0035 and
\* pending_withdrawals 0, action_deposit(100000) charges an entry fee of about
\* 349.65 and returns about 49912.5 shares (each to the precision it is
\* written with).
C15_ExampleAsStated ==
    (op.name = "action_deposit" /\ op.arg = 100000) =>
        LET fee == WideMicro(entry_cost_wide(vault[Direct], WideAssets(op.arg)))
            shares == WideMicro(op.ret)
        IN  /\ SubSeq(fee, 1, 4) = <<0, 0, 0, 349>> /\ fee[5] \in 645..654
            /\ SubSeq(shares, 1, 4) = <<0, 0, 49, 912>> /\ shares[5] \in 450..549

\* C15 (amended): with share_price 2.0, entry_cost_rate 0.0035 and
\* pending_withdrawals 0, action_deposit(100000) charges an entry fee of
\* 348.779273 = ceil_6dp(100000 * 0.0035 / 1.0035) and returns 49825.610363
\* shares = floor_6dp((100000 - 348.779273) / 2.0), on the 1e-6 grid.
C15_ExampleAsComputed ==
    (op.name = "action_deposit" /\ op.arg = 100000) =>
        LET fee == entry_cost_wide(vault[Direct], WideAssets(op.arg))
        IN  /\ fee = WideMul(<<0, 0, 0, 348, 779, 273>>, Grid)
            /\ op.ret = WideMul(<<0, 0, 49, 825, 610, 363>>, Grid)
            /\ vault[Direct].shares = op.ret

\* C15 witness: the deposit of 100000 has been made into the vault of the
\* example.
C15_Witness ==
    /\ op.name = "action_deposit"
    /\ op.arg = 100000
    /\ vault[Direct].share_price = Frac(2, 1)
    /\ vault[Direct].entry_cost_rate = Frac(35, 10000)
    /\ vault[Direct].pending_withdrawals = 0
    /\ vault[Direct].open_assets = WideAssets(100000)

\* C16 (as claimed): when sum(amounts) exceeds idle_assets by no more than the
\* first amount, action_allocate_assets accepts the batch, takes the excess off
\* the first amount only, applies the other amounts as given apart from dust
\* zeroing, and the amounts applied sum to at most idle_assets.
C16_ShortfallOffFirstAmount ==
    \A n \in 1..MaxFloatBatch, t \in Vaults \X Vaults :
        \A amounts \in SeqsOf(FloatAmounts, n) :
            LET r == float_action_allocate_assets(meta, vault, FloatTargets(t, n), amounts)
                idle == float_idle_assets(meta)
                excess == SeqSum(amounts) - idle
                expected == [i \in 1..n |->
                                LET amount == IF i = 1 THEN amounts[1] - excess
                                              ELSE amounts[i]
                                IN  IF amount > DUST THEN amount ELSE 0]
            IN  (excess > 0 /\ excess <= amounts[1]) =>
                    /\ r.exc = NoExc
                    /\ r.ret = expected
                    /\ SeqSum(r.ret) <= idle

C18_SharesNonNegative == vault[Direct].shares >= 0

\* C19: in every reachable state of the aggregator idle_assets >= 0,
\* pending_withdrawals >= 0, at most one of the two is positive, their
\* difference is _assets minus the cumulative requested withdrawals, and
\* total_assets is idle_assets plus the balances of the vaults of the
\* allocated-vault list minus pending_withdrawals.
C19_AggregatorAccounting ==
    LET idle == MetaVault_idle_assets(meta)
        pending == MetaVault_pending_withdrawals(meta)
        listed == meta._allocated_vaults
    IN  /\ idle >= 0
        /\ pending >= 0
        /\ ~(idle > 0 /\ pending > 0)
        /\ idle - pending = meta._assets - meta._cumulative_requested_withdrawals
        /\ MetaVault_balance(meta) = idle - pending
        /\ MetaVault_total_assets(meta, vault)
               = idle + SeqSum([i \in 1..Len(listed) |-> balance(vault[listed[i]])])
                     - pending

\* C19 witness: withdrawals are pending while two sub-vaults are allocated, and
\* raw assets have come back since the first request.
C19_Witness ==
    /\ MetaVault_pending_withdrawals(meta) > 0
    /\ meta._assets > 0
    /\ Len(meta._allocated_vaults) = 2
    /\ MetaVault_allocated_assets(meta, vault) > 0

\* the positive part of x
Positive(x) == IF x > 0 THEN x ELSE 0

\* after outcome r of a batch, the R it credited has first served the pending
\* withdrawals and the rest has become idle
Serviced(r) ==
    LET pending == MetaVault_pending_withdrawals(meta)
    IN  /\ MetaVault_pending_withdrawals(r.meta) = Positive(pending - r.ret)
        /\ MetaVault_idle_assets(r.meta)
               = MetaVault_idle_assets(meta) + Positive(r.ret - pending)
        /\ r.ret >= pending => MetaVault_pending_withdrawals(r.meta) = 0

\* C20: after a successful action_redeem_allocations or
\* action_withdraw_allocations that credits R in total, pending_withdrawals is
\* max(0, pending_withdrawals - R) and idle_assets has grown by
\* max(0, R - pending_withdrawals); with R >= pending_withdrawals nothing stays
\* pending.
C20_BatchesServicePending ==
    /\ \A b \in RedeemInputs :
           LET r == MetaVault_action_redeem_allocations(meta, vault, b.targets, b.amounts)
           IN  r.exc = NoExc => Serviced(r)
    /\ \A b \in WithdrawInputs :
           LET r == MetaVault_action_withdraw_allocations(meta, vault, b.targets, b.amounts)
           IN  r.exc = NoExc => Serviced(r)

\* C20 witness: withdrawals are pending, one redeem batch credits less than is
\* pending and another more.
C20_Witness ==
    /\ MetaVault_pending_withdrawals(meta) > 0
    /\ \E b \in RedeemInputs :
           LET r == MetaVault_action_redeem_allocations(meta, vault, b.targets, b.amounts)
           IN  r.exc = NoExc /\ r.ret > 0 /\ r.ret < MetaVault_pending_withdrawals(meta)
    /\ \E b \in RedeemInputs :
           LET r == MetaVault_action_redeem_allocations(meta, vault, b.targets, b.amounts)
           IN  r.exc = NoExc /\ r.ret > MetaVault_pending_withdrawals(meta)

\* the four validators
Validators ==
    {"validate_allocation", "validate_withdraw", "validate_redeem", "validate_reallocation"}

\* C21 (as claimed): every validator, on every input, names absent from the
\* balance table included, returns a result that is 'pass' or 'fail' and raises
\* nothing.
C21_ValidatorsTotal ==
    op.name \in Validators => (op.exc = NoExc /\ op.ret \in {"pass", "fail"})

\* C22 (as claimed): whenever the names list and the amounts (shares, weights)
\* list differ in length, one of them being empty included, the result of every
\* validator is 'fail'.
C22_ShapeMismatchFails ==
    (op.name \in Validators /\ Len(op.arg.names) # Len(op.arg.amounts))
        => op.ret = "fail"

\* every amount is >= 0
NonNegative(amounts) == \A i \in 1..Len(amounts) : amounts[i] >= 0

\* every amount that has a vault is <= the supplied balance of its vault
Sufficient(names, amounts, balances) ==
    \A i \in 1..Len(amounts) :
        i <= Len(names) =>
            (names[i] \in DOMAIN balances /\ amounts[i] <= balances[names[i]])

\* every weight lies in [0, 1] and the weights sum to 1
WeightsOfOne(weights) ==
    /\ \A i \in 1..Len(weights) : weights[i] >= 0 /\ weights[i] <= WeightSteps
    /\ SeqSum(weights) = WeightSteps

\* C23 (as claimed): a validator passes only if its conditions hold
\* (validate_allocation: amounts >= 0 and their sum <= the total;
\* validate_withdraw: amounts >= 0, their sum >= the total, each <= the balance of
\* its vault; validate_redeem: shares >= 0, each <= the balance of its vault;
\* validate_reallocation on a non-empty batch: weights in [0, 1] summing to 1),
\* and an input of matching lengths satisfying its validator's conditions passes.
C23_PassIffConditions ==
    LET a == op.arg
        pass == op.ret = "pass"
        shape == Len(a.names) = Len(a.amounts)
        allocation == NonNegative(a.amounts) /\ SeqSum(a.amounts) <= a.total
        withdraw ==
            /\ NonNegative(a.amounts)
            /\ SeqSum(a.amounts) >= a.total
            /\ Sufficient(a.names, a.amounts, a.balances)
        redeem == NonNegative(a.amounts) /\ Sufficient(a.names, a.amounts, a.balances)
    IN  /\ op.name = "validate_allocation" =>
               ((pass => allocation) /\ ((shape /\ allocation) => pass))
        /\ op.name = "validate_withdraw" =>
               ((pass => withdraw) /\ ((shape /\ withdraw) => pass))
        /\ op.name = "validate_redeem" =>
               ((pass => redeem) /\ ((shape /\ redeem) => pass))
        /\ op.name = "validate_reallocation" =>
               /\ (pass /\ a.names # <<>>) => WeightsOfOne(a.amounts)
               /\ (shape /\ WeightsOfOne(a.amounts)) => pass

InvalidMetaState(state) ==
    \/ state.deposits < 0
    \/ state.withdrawals < 0
    \/ (state.deposits > 0 /\ state.withdrawals > 0)

\* C26: the stored global state of the aggregator always has deposits >= 0,
\* withdrawals >= 0 and not both positive, and an update_state with an argument
\* violating this raises and leaves the stored global state, the raw assets, the
\* cumulative requested withdrawals, total_supply and the allocated vaults as
\* they were.
C26_MetaGlobalStateValid ==
    /\ ~InvalidMetaState(meta)
    /\ \A d \in -1..MaxBatchAmount, w \in -1..MaxBatchAmount :
           LET state == MetaVaultGlobalState(d, w)
               r == MetaVault_update_state(meta, vault, state)
           IN  InvalidMetaState(state) =>
                   (r.exc = MetaVaultEntityException /\ r.meta = meta /\ r.vault = vault)

\* C26 witness: an update_state of the aggregator was rejected while it stored a
\* deposit flow and had vaults allocated.
C26_Witness ==
    /\ op.name = "update_state"
    /\ op.exc = MetaVaultEntityException
    /\ meta.deposits > 0
    /\ Len(meta._allocated_vaults) > 0

\* the internal state (shares, open_assets) of a vault
InternalState(v) == <<v.shares, v.open_assets>>

\* the global state (share_price, idle_assets, pending_withdrawals) of a vault
GlobalState(v) ==
    LogarithmVaultGlobalState(v.share_price, v.idle_assets, v.pending_withdrawals)

\* C25: update_state never changes shares or open_assets; an accepted update
\* stores exactly the state supplied, so that balance is the redemption value of
\* the unchanged shares under the new state; a rejected update leaves the stored
\* global state in place; and every step that changes shares or open_assets is a
\* successful action_deposit, action_redeem or action_withdraw.
C25_UpdateStateKeepsInternalState ==
    /\ [](\A state \in PushedStates :
              LET v == vault[Direct]
                  r == update_state(v, state)
              IN  /\ InternalState(r.vault) = InternalState(v)
                  /\ r.exc = NoExc =>
                         /\ GlobalState(r.vault) = state
                         /\ balance(r.vault)
                                = preview_redeem([v EXCEPT
                                                     !.share_price = state.share_price,
                                                     !.idle_assets = state.idle_assets],
                                                 v.shares)
                  /\ r.exc # NoExc => GlobalState(r.vault) = GlobalState(v))
    /\ [][/\ op'.name = "update_state" =>
                 InternalState(vault'[Direct]) = InternalState(vault[Direct])
          /\ InternalState(vault'[Direct]) # InternalState(vault[Direct]) =>
                 /\ op'.name \in {"action_deposit", "action_redeem", "action_withdraw"}
                 /\ op'.exc = NoExc
         ]_vars

\* C25 witness: an update_state was accepted on a vault holding shares and
\* changed its share price, its idle assets and with them its balance.
C25_Witness ==
    /\ op.name = "update_state"
    /\ op.exc = NoExc
    /\ vault[Direct].shares > 0
    /\ vault[Direct].share_price = Frac(2, 1)
    /\ vault[Direct].idle_assets > 0
    /\ balance(vault[Direct]) > vault[Direct].open_assets

\* C27 (as claimed): preview_deposit charges no entry fee when assets <=
\* pending_withdrawals and otherwise the cost on the total of the excess;
\* preview_redeem charges no exit fee when the gross value is <= idle_assets and
\* otherwise the cost on the total of the excess; the fee never exceeds the
\* amount it is charged on, and neither preview returns a negative value for a
\* non-negative argument.
C27_FeesOnlyOnUnoffsetPortion ==
    LET v == vault[Direct]
        entry_fee ==
            IF op.arg <= v.pending_withdrawals THEN 0
            ELSE ceil_to_6dp((op.arg - v.pending_withdrawals) * v.entry_cost_rate.n,
                             v.entry_cost_rate.d + v.entry_cost_rate.n)
        gross == floor_to_6dp(op.arg * v.share_price.n, v.share_price.d)
        exit_fee ==
            IF gross <= v.idle_assets THEN 0
            ELSE ceil_to_6dp((gross - v.idle_assets) * v.exit_cost_rate.n,
                             v.exit_cost_rate.d + v.exit_cost_rate.n)
    IN  /\ op.name = "preview_deposit" =>
               /\ op.ret = floor_to_6dp((op.arg - entry_fee) * v.share_price.d,
                                        v.share_price.n)
               /\ entry_fee <= op.arg
               /\ op.ret >= 0
        /\ op.name = "preview_redeem" =>
               /\ op.ret = gross - exit_fee
               /\ exit_fee <= gross
               /\ op.ret >= 0

\* C28: a successful action_deposit(a) returns preview_deposit(a), adds it to
\* shares and a to open_assets; a successful action_redeem(s) returns
\* preview_redeem(s), takes s off shares and the assets returned off open_assets;
\* a successful action_withdraw(a) with a < balance returns preview_withdraw(a),
\* takes it off shares and a off open_assets; the previews are those of the state
\* before the call; open_assets is 0 instead whenever the shares become 0, and in
\* every reachable state shares = 0 implies open_assets = 0.
C28_ActionsApplyTheirPreview ==
    LET v == vault[Direct]
        Applied(r, delta_shares, delta_assets) ==
            /\ r.vault.shares = v.shares + delta_shares
            /\ r.vault.open_assets
                   = IF r.vault.shares = 0 THEN 0 ELSE v.open_assets + delta_assets
            /\ GlobalState(r.vault) = GlobalState(v)
    IN  /\ v.shares = 0 => v.open_assets = 0
        /\ \A a \in Amounts :
               LET r == action_deposit(v, a)
               IN  r.exc = NoExc => (r.ret = preview_deposit(v, a) /\ Applied(r, r.ret, a))
        /\ \A s \in Amounts \cup {v.shares} :
               LET r == action_redeem(v, s)
               IN  r.exc = NoExc => (r.ret = preview_redeem(v, s) /\ Applied(r, -s, -r.ret))
        /\ \A a \in Amounts :
               LET r == action_withdraw(v, a)
               IN  (r.exc = NoExc /\ a < balance(v)) =>
                       (r.ret = preview_withdraw(v, a) /\ Applied(r, -r.ret, -a))

\* C28 witness: a redemption of all the shares of a vault that charges costs
\* returned assets and left shares = 0 and open_assets = 0.
C28_Witness ==
    /\ op.name = "action_redeem"
    /\ op.exc = NoExc
    /\ op.ret > 0
    /\ vault[Direct].entry_cost_rate.n > 0
    /\ vault[Direct].shares = 0
    /\ vault[Direct].open_assets = 0

\* C29 (as claimed): an accepted action_allocate_assets deposits into its targets
\* the adjusted amounts (the shortfall taken off the first) with exactly those
\* strictly below 1e-6 replaced by 0; an adjusted amount of 1e-6 or more is
\* deposited unchanged.
C29_DustStrictlyBelowThreshold ==
    \A b \in PairBatches :
        LET r == MetaVault_action_allocate_assets(meta, vault, b.targets, b.amounts)
            shortfall == SeqSum(b.amounts) - MetaVault_idle_assets(meta)
            adjusted ==
                [b.amounts EXCEPT ![1] = @ - (IF shortfall > 0 THEN shortfall ELSE 0)]
            deposited ==
                [i \in 1..Len(adjusted) |-> IF adjusted[i] < DUST THEN 0 ELSE adjusted[i]]
            claimed == AllocateLoop(meta, vault, b.targets, deposited, 1)
        IN  r.exc = NoExc => (r.meta = claimed.meta /\ r.vault = claimed.vault)

\* C30 (as claimed): in every state reachable through sub-vault update_state
\* calls and the aggregator's operations, total_supply is >= 0 and action_deposit
\* of any assets >= 0 returns a number of shares >= 0 and does not lower
\* total_supply.
C30_SupplyAndMintNonNegative ==
    /\ meta.total_supply.n >= 0
    /\ \A assets \in 0..MaxBatchAmount :
           LET r == MetaVault_action_deposit(meta, vault, assets)
           IN  /\ r.exc = NoExc
               /\ r.ret.n >= 0
               /\ FracSub(r.meta.total_supply, meta.total_supply).n >= 0

\* C31 (as claimed): in every state reachable through sub-vault update_state
\* calls and the aggregator's operations, the aggregator's total_assets is >= 0:
\* the pending withdrawals never exceed the idle assets plus the allocated assets.
C31_TotalAssetsNonNegative ==
    MetaVault_pending_withdrawals(meta)
        <= MetaVault_idle_assets(meta) + MetaVault_allocated_assets(meta, vault)

\* C32 (as claimed): no successful action_allocate_assets,
\* action_redeem_allocations or action_withdraw_allocations leaves the
\* aggregator's total_assets higher than it was before the call.
C32_BatchesNeverIncreaseTotalAssets ==
    LET before == MetaVault_total_assets(meta, vault)
        NoGain(r) == r.exc = NoExc => MetaVault_total_assets(r.meta, r.vault) <= before
    IN  /\ \A b \in BatchInputs :
               NoGain(MetaVault_action_allocate_assets(meta, vault, b.targets, b.amounts))
        /\ \A b \in RedeemInputs :
               NoGain(MetaVault_action_redeem_allocations(meta, vault, b.targets, b.amounts))
        /\ \A b \in WithdrawInputs :
               NoGain(MetaVault_action_withdraw_allocations(meta, vault, b.targets, b.amounts))

\* C33: every sub-vault with strictly positive shares is in the aggregator's
\* allocated-vault list exactly once, and allocated_assets is the sum of balance
\* over the sub-vaults holding shares.
C33_HoldersListedOnce ==
    LET listed(v) == {i \in 1..Len(meta._allocated_vaults) : meta._allocated_vaults[i] = v}
        holders == {v \in Vaults : vault[v].shares > 0}
        RECURSIVE SumOver(_)
        SumOver(S) ==
            IF S = {} THEN 0
            ELSE LET v == CHOOSE x \in S : TRUE
                 IN  balance(vault[v]) + SumOver(S \ {v})
    IN  /\ \A v \in holders : Cardinality(listed(v)) = 1
        /\ MetaVault_allocated_assets(meta, vault) = SumOver(holders)

\* after four calls or more both sub-vaults hold shares and the list names them
\* in the order in which they were allocated to
C33_Witness ==
    /\ meta._allocated_vaults = <<"v2", "v1">>
    /\ \A v \in Vaults : vault[v].shares > 0
    /\ hist.steps >= 4

\* the floats that are a multiple of 1e-6: those nearest to some k / Decimals
On6dp == {float_6dp(k) : k \in 0..(4 * MaxFloatDeposit)}

\* C34 (as claimed): for a vault whose shares are a multiple of 1e-6, every
\* action_withdraw(assets) with assets a multiple of 1e-6 and
\* 0 <= assets < balance succeeds.
C34_WithdrawBelowBalanceSucceeds ==
    LET v == vault[Direct]
    IN  v.shares \in On6dp =>
            \A assets \in FloatVaultAmounts :
                assets < float_balance(v) => float_action_withdraw(v, assets).exc = NoExc

\* the same property of the exact-arithmetic vault
C34_ExactWithdrawBelowBalanceSucceeds ==
    LET v == vault[Direct]
    IN  v.shares % Grid = 0 =>
            \A assets \in 0..(MaxShares * MaxPriceNum) :
                (assets % Grid = 0 /\ assets < balance(v)) =>
                    /\ action_withdraw(v, assets).exc = NoExc
                    /\ preview_withdraw(v, assets) <= v.shares

\* C35 (as claimed): a batch over registered sub-vaults that passes
\* validate_allocation against idle_assets, validate_withdraw against
\* pending_withdrawals and the balances, or validate_redeem against the shares,
\* is applied by the corresponding aggregator operation without raising.
C35_ValidatedBatchesApply ==
    LET balances == [v \in Vaults |-> balance(vault[v])]
        shares == [v \in Vaults |-> vault[v].shares]
        registered == {b \in RedeemInputs \cup WithdrawInputs :
                          \A i \in 1..Len(b.targets) : b.targets[i] \in Vaults}
        Passes(feedback) == feedback.exc = NoExc /\ feedback.result = "pass"
    IN  \A b \in registered :
            /\ Passes(validate_allocation(MetaVault_idle_assets(meta), b.targets, b.amounts))
                   => MetaVault_action_allocate_assets(meta, vault, b.targets,
                                                       b.amounts).exc = NoExc
            /\ Passes(validate_withdraw(MetaVault_pending_withdrawals(meta), b.targets,
                                        b.amounts, balances))
                   => MetaVault_action_withdraw_allocations(meta, vault, b.targets,
                                                            b.amounts).exc = NoExc
            /\ Passes(validate_redeem(b.targets, b.amounts, shares))
                   => MetaVault_action_redeem_allocations(meta, vault, b.targets,
                                                          b.amounts).exc = NoExc

\* the same with the empty batches left out: a batch that names a sub-vault
\* twice still passes validation and raises when applied
C35_NonEmptyValidatedBatchesApply ==
    LET balances == [v \in Vaults |-> balance(vault[v])]
        shares == [v \in Vaults |-> vault[v].shares]
        Passes(feedback) == feedback.exc = NoExc /\ feedback.result = "pass"
    IN  \A b \in PairBatches \cup FullRedeemBatches \cup FullWithdrawBatches :
            /\ Passes(validate_withdraw(MetaVault_pending_withdrawals(meta), b.targets,
                                        b.amounts, balances))
                   => MetaVault_action_withdraw_allocations(meta, vault, b.targets,
                                                            b.amounts).exc = NoExc
            /\ Passes(validate_redeem(b.targets, b.amounts, shares))
                   => MetaVault_action_redeem_allocations(meta, vault, b.targets,
                                                          b.amounts).exc = NoExc

\* C36 (as claimed): in every reachable state of a LogarithmVault,
\* action_deposit(0), action_redeem(0) and action_withdraw(0) succeed and leave
\* shares and open_assets unchanged.
C36_ZeroAmountsAreNoOps ==
    LET v == vault[Direct]
        NoOpOn(r) ==
            /\ r.exc = NoExc
            /\ r.vault.shares = v.shares
            /\ r.vault.open_assets = v.open_assets
    IN  /\ NoOpOn(action_deposit(v, 0))
        /\ NoOpOn(action_redeem(v, 0))
        /\ NoOpOn(action_withdraw(v, 0))

\* the same for the vaults whose shares are not negative: action_withdraw(0) of a
\* vault that holds shares of balance 0 still burns them
C36_ZeroAmountsAreNoOpsOnHolders ==
    LET v == vault[Direct]
        NoOpOn(r) ==
            /\ r.exc = NoExc
            /\ r.vault.shares = v.shares
            /\ r.vault.open_assets = v.open_assets
    IN  (v.shares >= 0 /\ v.shares % Grid = 0) =>
            /\ NoOpOn(action_deposit(v, 0))
            /\ NoOpOn(action_redeem(v, 0))
            /\ NoOpOn(action_withdraw(v, 0))

\* C37: action_deposit, action_redeem and action_withdraw of a sub-vault never
\* change its global state; a batch of the aggregator changes no sub-vault's
\* global state and the internal state only of the sub-vaults among its targets;
\* the aggregator's action_deposit and action_withdraw change no sub-vault.
C37_ActionsKeepGlobalStateAndOtherVaults ==
    /\ \A v \in Vaults :
           \A amount \in Amounts \cup {vault[v].shares, balance(vault[v])} :
               /\ GlobalState(action_deposit(vault[v], amount).vault) = GlobalState(vault[v])
               /\ GlobalState(action_redeem(vault[v], amount).vault) = GlobalState(vault[v])
               /\ GlobalState(action_withdraw(vault[v], amount).vault) = GlobalState(vault[v])
    /\ LET Framed(b, r) ==
               \A v \in Vaults :
                   /\ GlobalState(r.vault[v]) = GlobalState(vault[v])
                   /\ (\A i \in 1..Len(b.targets) : b.targets[i] # v)
                          => r.vault[v] = vault[v]
       IN  /\ \A b \in BatchInputs :
                  Framed(b, MetaVault_action_allocate_assets(meta, vault, b.targets,
                                                             b.amounts))
           /\ \A b \in RedeemInputs :
                  Framed(b, MetaVault_action_redeem_allocations(meta, vault, b.targets,
                                                                b.amounts))
           /\ \A b \in WithdrawInputs :
                  Framed(b, MetaVault_action_withdraw_allocations(meta, vault, b.targets,
                                                                  b.amounts))
    /\ \A assets \in DepositInputs :
           MetaVault_action_deposit(meta, vault, assets).vault = vault
    /\ \A assets \in WithdrawalInputs :
           MetaVault_action_withdraw(meta, vault, assets).vault = vault

\* C37 witness: a batch has allocated to one sub-vault only, whose pushed global
\* state (a share price other than 1.0, pending withdrawals) is still in place,
\* and the aggregator has taken a withdrawal since; the other sub-vault is as built.
C37_Witness ==
    /\ vault["v1"].shares > 0
    /\ vault["v1"].share_price # Frac(1, 1)
    /\ vault["v1"].pending_withdrawals > 0
    /\ vault["v2"] = Registered["v2"]
    /\ meta._cumulative_requested_withdrawals > 0

\* C38 (as claimed): the withdraw_allocations batch that predict builds with
\* _withdraw_assets requests from no sub-vault more than its current balance,
\* names each sub-vault at most once, and is accepted by
\* action_withdraw_allocations in the same step.
C38_WithdrawBatchWithinBalances ==
    op.name = "predict" =>
        \A k \in 1..Len(op.ret) :
            LET a == op.ret[k]
            IN  a.action = "withdraw_allocations" =>
                    /\ \A i \in 1..Len(a.targets) :
                           a.amounts[i] <= balance(vault[a.targets[i]])
                    /\ \A i, j \in 1..Len(a.targets) :
                           i # j => a.targets[i] # a.targets[j]
                    /\ MetaVault_action_withdraw_allocations(meta, vault, a.targets,
                                                             a.amounts).exc = NoExc

====
